---- MODULE Spec2Model ----
(***************************************************************************)
(* Model of outlier_search (src/util.py) of sar_drift_converter: the scene *)
(* partition, the per-scene neighbour statistics, the classifier and the   *)
(* convergence loop (Spec); of the grid mapping of create_netcdf           *)
(* (SpecNetcdf); of read_json_config and main of sar_drift_converter.py    *)
(* (SpecMain); of circular_mean, circular_std and the bearing residual as  *)
(* pure functions (SpecCirc); and of the loop over files of                *)
(* detect_outliers (SpecDetect).  Each specification leaves the variables  *)
(* of the others idle.                                                     *)
(*                                                                         *)
(* Conventions                                                             *)
(*  - A data frame is a sequence of records; position i of the sequence is *)
(*    pandas index i-1.                                                    *)
(*  - Stored z-scores are np.round(z, 3), so they are held exactly as      *)
(*    integers in thousandths; NaN is the not-a-number value.              *)
(*  - Bearings that are multiples of 90 degrees have sin and cos -1, 0 or  *)
(*    1 up to the 1e-16 residue of the floating-point value of pi; their   *)
(*    angles are fixed point, 1e-4 rad.  Other bearings are computed in    *)
(*    fixed point of 1e-8 (the definitions ending in _E8).                 *)
(*  - File identifiers are integers ordered as the file names sort.        *)
(*  - src (the position a row had in the input), scene_log (the scenes of  *)
(*    the current iteration in the order they were taken), exit_by and      *)
(*    n_pass record the history of the run; the code has no such fields.   *)
(***************************************************************************)
EXTENDS Integers, Sequences, FiniteSets, TLC

\* outlier_search
VARIABLES df, radius_km, min_neighbors, iter_count,
          out_df, pool_df, iter_idx, iter_prev_inliers,
          pending, scene_log, pc, exit_by, n_pass

\* create_netcdf
VARIABLES nc_df, x_coords, y_coords, netcdf_grid, index_mapping,
          row_idx, print_log, nc_pc

\* read_json_config and main
VARIABLES args_config_file, json_config, fs, dir_listing,
          config, files, file_idx, calls, rc, main_pc

\* circular_mean, circular_std and the bearing residual on their own
VARIABLES angles, circ_cell, circ_mean, circ_std, circ_delta, circ_pc

\* detect_outliers
VARIABLES det_config, det_dir, gfilter_matches, det_idx, det_log,
          quiver_payloads, starts, det_pc

search_vars == <<df, radius_km, min_neighbors, iter_count,
                 out_df, pool_df, iter_idx, iter_prev_inliers,
                 pending, scene_log, pc, exit_by, n_pass>>

nc_vars == <<nc_df, x_coords, y_coords, netcdf_grid, index_mapping,
             row_idx, print_log, nc_pc>>

main_vars == <<args_config_file, json_config, fs, dir_listing,
               config, files, file_idx, calls, rc, main_pc>>

circ_vars == <<angles, circ_cell, circ_mean, circ_std, circ_delta, circ_pc>>

det_vars == <<det_config, det_dir, gfilter_matches, det_idx, det_log,
              quiver_payloads, starts, det_pc>>

\* the variables outlier_search does not touch
rest_vars == <<nc_vars, main_vars, circ_vars, det_vars>>

vars == <<search_vars, rest_vars>>

----------------------------------------------------------------------------
(* Bounds of the model *)

MaxObs == 3
MaxIterCount == 3
ClusterObs == 5

----------------------------------------------------------------------------
(* Values of the program *)

NaN == -1
None == -1
Z_THRESHOLD_MILLI == 3000
PI_E4 == 31416
CLIP_STD_E4 == 74338

\* np.log(k), k = 1..49, in 1e-6
LN_E6 ==
  << 0, 693147, 1098612, 1386294, 1609438, 1791759, 1945910, 2079442,
     2197225, 2302585, 2397895, 2484907, 2564949, 2639057, 2708050, 2772589,
     2833213, 2890372, 2944439, 2995732, 3044522, 3091042, 3135494, 3178054,
     3218876, 3258097, 3295837, 3332205, 3367296, 3401197, 3433987, 3465736,
     3496508, 3526361, 3555348, 3583519, 3610918, 3637586, 3663562, 3688879,
     3713572, 3737670, 3761200, 3784190, 3806662, 3828641, 3850148, 3871201,
     3891820 >>

\* np.arctan2(p, q), 0 <= p <= q, 1 <= q <= 7, in 1e-4 rad: ATAN_E4[q][p+1]
ATAN_E4 ==
  << <<0, 7854>>,
     <<0, 4636, 7854>>,
     <<0, 3218, 5880, 7854>>,
     <<0, 2450, 4636, 6435, 7854>>,
     <<0, 1974, 3805, 5404, 6747, 7854>>,
     <<0, 1651, 3218, 4636, 5880, 6947, 7854>>,
     <<0, 1419, 2783, 4049, 5191, 6202, 7086, 7854>> >>

----------------------------------------------------------------------------
(* Arithmetic helpers *)

Abs(x) == IF x < 0 THEN -x ELSE x

RECURSIVE SumSeq(_)
SumSeq(s) == IF s = <<>> THEN 0 ELSE Head(s) + SumSeq(Tail(s))

RECURSIVE SetToSeq(_)
\* the elements of a finite set of integers in ascending order
SetToSeq(S) ==
  IF S = {} THEN <<>>
  ELSE LET m == CHOOSE x \in S : \A y \in S : x <= y
       IN  <<m>> \o SetToSeq(S \ {m})

RECURSIVE IsqrtIn(_, _, _)
IsqrtIn(n, lo, hi) ==
  IF lo >= hi THEN lo
  ELSE LET mid == (lo + hi + 1) \div 2
       IN  IF mid * mid <= n THEN IsqrtIn(n, mid, hi)
                             ELSE IsqrtIn(n, lo, mid - 1)

\* floor(sqrt(n)), 0 <= n < 2^31
Isqrt(n) == IsqrtIn(n, 0, 46340)

\* np.round(1000 * num / den) (round half to even), num >= 0, den > 0
RoundRatioMilli(num, den) ==
  LET q == (1000 * num) \div den
      r == (1000 * num) % den
  IN  IF 2 * r > den \/ (2 * r = den /\ q % 2 = 1) THEN q + 1 ELSE q

\* np.round(1000 * sqrt(A / B)) (round half to even), A >= 0, B > 0,
\* A / B < 2000
RoundSqrtMilliExact(A, B) ==
  LET k  == 1000000 \div B
      m  == 1000000 % B
      qf == A * k + (A * m) \div B        \* floor(1e6 * A / B)
      fr == (A * m) % B                   \* (1e6 * A / B - qf) * B
      r0 == Isqrt(qf)
      t  == r0 * r0 + r0
      up == \/ qf > t
            \/ qf = t /\ 4 * fr > B
            \/ qf = t /\ 4 * fr = B /\ r0 % 2 = 1
  IN  IF up THEN r0 + 1 ELSE r0

----------------------------------------------------------------------------
(* Circular statistics *)

\* Bearings that are not multiples of 90 degrees are computed in fixed point
\* with eight decimals.
E8 == 100000000
PI_E8 == 314159265
HALF_PI_E8 == 157079633
LN2_E8 == 69314718
CLIP_STD_E8 == 743384438

\* np.arctan(2^-i), i = 0..27, in 1e-8 rad
ATAN_E8 ==
  << 78539816, 46364761, 24497866, 12435499, 6241881, 3123983, 1562373,
     781234, 390623, 195312, 97656, 48828, 24414, 12207, 6104, 3052, 1526,
     763, 381, 191, 95, 48, 24, 12, 6, 3, 1, 1 >>

\* <<floor(a * b / 10^8), (a * b) % 10^8>> for a, b >= 0 with a * b / 10^8
\* below 2^31, from the halves of a and b so that no intermediate value
\* leaves the 32-bit range
MulE8QR(a, b) ==
  LET a1 == a \div 10000
      a0 == a % 10000
      b1 == b \div 10000
      b0 == b % 10000
      lo == (((a1 * b0) % 10000) + ((a0 * b1) % 10000)) * 10000 + a0 * b0
  IN  << a1 * b1 + (a1 * b0) \div 10000 + (a0 * b1) \div 10000 + lo \div E8,
         lo % E8 >>

\* the product of two 1e-8 fixed-point numbers, rounded to nearest
MulE8(a, b) ==
  LET h == MulE8QR(Abs(a), Abs(b))
      m == IF 2 * h[2] >= E8 THEN h[1] + 1 ELSE h[1]
  IN  IF (a < 0) # (b < 0) THEN -m ELSE m

RECURSIVE LongDiv(_, _, _)
\* floor(a * 10^digits / b), 0 <= a, 0 < b <= 2 * 10^8, digit by digit
LongDiv(a, b, digits) ==
  IF digits = 0 THEN a \div b
  ELSE ((a \div b) * (10^digits)) + LongDiv(10 * (a % b), b, digits - 1)

\* the quotient of two 1e-8 fixed-point numbers, 0 <= a, 0 < b <= 2
DivE8(a, b) == LongDiv(a, b, 8)

\* x / n rounded to nearest, n > 0
DivRound(x, n) ==
  IF x >= 0 THEN (2 * x + n) \div (2 * n) ELSE -((2 * (-x) + n) \div (2 * n))

RECURSIVE TaylorSum(_, _, _, _)
\* term - term x^2/(k(k+1)) + term x^4/(k(k+1)(k+2)(k+3)) - ...
TaylorSum(term, x2, k, sign) ==
  IF term = 0 THEN 0
  ELSE sign * term
         + TaylorSum(DivRound(MulE8(term, x2), k * (k + 1)), x2, k + 2, -sign)

\* an angle in (-3 pi, 3 pi] brought into (-pi, pi]
WrapPi(x) ==
  IF x > PI_E8 THEN x - 2 * PI_E8
  ELSE IF x <= -PI_E8 THEN x + 2 * PI_E8
  ELSE x

\* np.sin(x), x and result in 1e-8
sin_E8(x) ==
  LET w == WrapPi(x)
      a == Abs(w)
      f == IF a > HALF_PI_E8 THEN PI_E8 - a ELSE a
      s == TaylorSum(f, MulE8(f, f), 2, 1)
  IN  IF w < 0 THEN -s ELSE s

\* np.cos(x), x and result in 1e-8
cos_E8(x) ==
  LET a == Abs(WrapPi(x))
  IN  IF a > HALF_PI_E8
      THEN -TaylorSum(E8, MulE8(PI_E8 - a, PI_E8 - a), 1, 1)
      ELSE TaylorSum(E8, MulE8(a, a), 1, 1)

\* np.deg2rad(d) in 1e-8 rad, d >= 0
deg2rad_E8(d) == d * 1745329 + (d * 2520 + 5000) \div 10000

RECURSIVE Cordic(_, _, _, _)
\* the angle of (x, y), x >= 0, y >= 0, by rotations of arctan(2^-i)
Cordic(x, y, z, i) ==
  IF i = Len(ATAN_E8) \/ y = 0 THEN z
  ELSE IF y > 0
       THEN Cordic(x + y \div 2^i, y - x \div 2^i, z + ATAN_E8[i + 1], i + 1)
       ELSE Cordic(x - y \div 2^i, y + x \div 2^i, z - ATAN_E8[i + 1], i + 1)

\* np.arctan2(y, x) in 1e-8 rad, in [-pi, pi]; |x|, |y| <= 5 * 10^8
arctan2_E8(y, x) ==
  LET big == IF Abs(x) > Abs(y) THEN Abs(x) ELSE Abs(y)
      k   == (5 * E8) \div big
      q   == Cordic(k * Abs(x), k * Abs(y), 0, 0)
      h   == IF x >= 0 THEN q ELSE PI_E8 - q
  IN  IF x = 0 /\ y = 0 THEN 0
      ELSE IF y >= 0 THEN h ELSE -h

RECURSIVE AtanhSeries(_, _, _)
\* p/k + p t^2/(k+2) + p t^4/(k+4) + ..., p = t^k
AtanhSeries(p, t2, k) ==
  IF p = 0 THEN 0
  ELSE DivRound(p, k) + AtanhSeries(MulE8(p, t2), t2, k + 2)

RECURSIVE NegLog_E8(_)
\* -np.log(v), 0 < v <= 1, v and result in 1e-8:
\* -ln(v) = ln 2 - ln(2 v), and -ln(m) = 2 artanh((1 - m)/(1 + m))
NegLog_E8(v) ==
  IF 2 * v < E8 THEN LN2_E8 + NegLog_E8(2 * v)
  ELSE LET t == DivE8(E8 - v, E8 + v)
       IN  2 * AtanhSeries(t, MulE8(t, t), 1)

RECURSIVE SqrtE8In(_, _, _)
SqrtE8In(w, lo, hi) ==
  IF lo >= hi THEN lo
  ELSE LET mid == (lo + hi + 1) \div 2
           sq  == MulE8QR(mid, mid)
       IN  IF sq[1] < w \/ (sq[1] = w /\ sq[2] = 0)
           THEN SqrtE8In(w, mid, hi)
           ELSE SqrtE8In(w, lo, mid - 1)

\* np.sqrt(w), w and result in 1e-8, 0 <= w < 21.47
Sqrt_E8(w) == SqrtE8In(w, 0, 463400000)

\* np.sin / np.cos of a bearing that is a multiple of 90 degrees
SinDeg(d) == CASE d = 90 -> 1 [] d = 180 -> 0 [] d = 270 -> -1
CosDeg(d) == CASE d = 90 -> 0 [] d = 180 -> -1 [] d = 270 -> 0

\* np.deg2rad, in 1e-4 rad
deg2rad(d) == (d * PI_E4) \div 180

\* np.arctan2(y, x) for integers y, x, in 1e-4 rad, in (-pi, pi]
arctan2(y, x) ==
  LET ay == Abs(y)
      ax == Abs(x)
      oct == IF ax >= ay THEN ATAN_E4[ax][ay + 1]
                         ELSE PI_E4 \div 2 - ATAN_E4[ay][ax + 1]
      quad == IF x >= 0 THEN oct ELSE PI_E4 - oct
  IN  IF x = 0 /\ y = 0 THEN 0
      ELSE IF y >= 0 THEN quad ELSE -quad

SinSum(a) == SumSeq([i \in 1..Len(a) |-> SinDeg(a[i])])
CosSum(a) == SumSeq([i \in 1..Len(a) |-> CosDeg(a[i])])

\* circular_mean(a): arctan2(nanmean(sin a), nanmean(cos a)), 1e-4 rad.
\* Bearings of 90, 180 and 270 degrees cancel to (0, 0) only as equally many
\* of 90 and 270; the floating-point sum of the sines is then +0.0 and the
\* sum of the cosines keeps a negative residue (cos(pi/2) = 6.1e-17,
\* cos(3pi/2) = -1.8e-16), on which arctan2 is pi.
circular_mean(a) ==
  IF SinSum(a) = 0 /\ CosSum(a) = 0 THEN PI_E4
  ELSE arctan2(SinSum(a), CosSum(a))

\* circular_std(a), 1e-4 rad: with s, c the means, R^2 = (Ss^2 + Sc^2) / n^2,
\* -2 ln(clip(R, 1e-12, 1)) = ln(n^2) - ln(Ss^2 + Sc^2) unless R is clipped
circular_std(a) ==
  LET n  == Len(a)
      r2 == SinSum(a) * SinSum(a) + CosSum(a) * CosSum(a)
  IN  IF r2 = 0 THEN CLIP_STD_E4
      ELSE Isqrt(100 * (LN_E6[n * n] - LN_E6[r2]))

RECURSIVE LongDivAcc(_, _, _, _)
\* floor((q + r / b) * 10^digits), 0 <= r < b <= 2 * 10^8
LongDivAcc(q, r, b, digits) ==
  IF digits = 0 THEN q
  ELSE LongDivAcc(10 * q + (10 * r) \div b, (10 * r) % b, b, digits - 1)

\* np.round(1000 * a / sqrt(B)) for a score of 44.7 and more, where the
\* square of the score in thousandths leaves the 32-bit range: sqrt(B) is
\* taken in 1e-6 and the quotient to one digit beyond the thousandth;
\* 0 <= a, 0 < B <= 40000
RoundSqrtMilliWide(a, B) ==
  LET sd == Sqrt_E8(10000 * B)
      q  == LongDivAcc(a \div sd, a % sd, sd, 10)
  IN  (q + 5) \div 10

\* np.round(1000 * sqrt(A / B)), A = a^2 >= 0, B > 0
RoundSqrtMilli(A, B) ==
  IF A < 2000 * B THEN RoundSqrtMilliExact(A, B)
  ELSE RoundSqrtMilliWide(Isqrt(A), B)

\* every bearing a multiple of 90 degrees
RightAngled(a) == \A i \in 1..Len(a) : a[i] % 90 = 0

SinSum_E8(a) == SumSeq([i \in 1..Len(a) |-> sin_E8(deg2rad_E8(a[i]))])
CosSum_E8(a) == SumSeq([i \in 1..Len(a) |-> cos_E8(deg2rad_E8(a[i]))])

\* the arithmetic mean of the degree values, in 1e-8 rad
arithmetic_mean_E8(a) == WrapPi(deg2rad_E8(SumSeq(a) \div Len(a)))

\* circular_mean(a) in 1e-8 rad, a in whole degrees 0..359
circular_mean_E8(a) ==
  arctan2_E8(DivRound(SinSum_E8(a), Len(a)), DivRound(CosSum_E8(a), Len(a)))

\* the double below 1.0 for every bearing and count
ResultantUlpsAlways(d, n) == 1

\* 2^53 * (1 - R) for the R = np.sqrt(s*s + c*c) that IEEE double arithmetic
\* gives on n copies of the bearing d (s and c the float means of the float
\* sine and cosine), 1 <= n <= 8, d among 0, 1, 2, 44, 45, 46, 90, 120, 180,
\* 240, 270 and 359 degrees: the length is 1.0 or the double just below it
ResultantUlpsBelowOne(d, n) ==
  CASE d = 46 -> 1
    [] d = 120 -> IF n \in {5, 6} THEN 0 ELSE 1
    [] d \in {1, 359} -> IF n >= 6 THEN 1 ELSE 0
    [] d = 2 -> IF n = 5 THEN 1 ELSE 0
    [] OTHER -> 0

\* np.sqrt(-2 * np.log(1 - 2^-53)) = 1.49e-8, in 1e-8
RESIDUE_STD_E8 == 1

Identical(a) == \A i \in 1..Len(a) : a[i] = a[1]

\* circular_std(a) in 1e-8 rad, a in whole degrees 0..359.  Of equal
\* angles the resultant has length 1 and the last bit of the float
\* arithmetic decides between 1.0 and the double below; a resultant
\* shorter than the resolution is what cancelling angles leave (about 1e-16
\* in the floats), clipped to 1e-12; R^2 is clipped instead of R
circular_std_E8(a) ==
  LET n  == Len(a)
      s  == DivRound(SinSum_E8(a), n)
      c  == DivRound(CosSum_E8(a), n)
      R2 == MulE8(s, s) + MulE8(c, c)
  IN  IF Identical(a)
      THEN IF ResultantUlpsBelowOne(a[1], n) = 0 THEN 0 ELSE RESIDUE_STD_E8
      ELSE IF R2 = 0 THEN CLIP_STD_E8
      ELSE IF R2 >= E8 THEN 0
      ELSE Sqrt_E8(NegLog_E8(R2))

\* the sines and the cosines cancel: the float means are rounding residue
Cancelling(a) ==
  LET s == DivRound(SinSum_E8(a), Len(a))
      c == DivRound(CosSum_E8(a), Len(a))
  IN  MulE8(s, s) + MulE8(c, c) = 0

----------------------------------------------------------------------------
(* Neighbour statistics of one observation (util.py 1948-1979) *)

\* n * np.nanmean(x)
MeanTimesN(x) == SumSeq(x)

\* n^2 * np.nanstd(x)^2
VarTimesN2(x) ==
  Len(x) * SumSeq([i \in 1..Len(x) |-> x[i] * x[i]]) - SumSeq(x) * SumSeq(x)

\* a zero standard deviation scored as 0 instead of not-a-number
dist_z_zero_std(cell_dist, neigh_dist) ==
  LET n == Len(neigh_dist)
      a == Abs(n * cell_dist - MeanTimesN(neigh_dist))
      B == VarTimesN2(neigh_dist)
  IN  IF B = 0 THEN 0 ELSE RoundSqrtMilli(a * a, B)

\* np.round(|cell - mean| / std, 3) in thousandths; NaN when std = 0
dist_z_score(cell_dist, neigh_dist) ==
  LET n == Len(neigh_dist)
      a == Abs(n * cell_dist - MeanTimesN(neigh_dist))
      B == VarTimesN2(neigh_dist)
  IN  IF B = 0 THEN NaN ELSE RoundSqrtMilli(a * a, B)

\* arctan2(sin(x), cos(x)): x wrapped into (-pi, pi]
delta_bear(cell_bear, bear_mean) ==
  LET x == cell_bear - bear_mean
  IN  IF x > PI_E4 THEN x - 2 * PI_E4
      ELSE IF x <= -PI_E4 THEN x + 2 * PI_E4
      ELSE x

\* np.arctan2(np.sin(x), np.cos(x)), x = cell_bear - bear_mean, in 1e-8 rad
delta_bear_E8(cell_bear, bear_mean) ==
  arctan2_E8(sin_E8(cell_bear - bear_mean), cos_E8(cell_bear - bear_mean))

\* the largest score held, in thousandths
Z_MAX_MILLI == 200000000

\* np.round(num / den, 3) in thousandths, 0 <= num, 0 < den, both in 1e-8
RatioMilli_E8(num, den) ==
  LET tenth == den > 2 * E8
      a == IF tenth THEN num \div 10 ELSE num
      b == IF tenth THEN den \div 10 ELSE den
  IN  IF a \div b >= Z_MAX_MILLI \div 1000 THEN Z_MAX_MILLI
      ELSE (LongDivAcc(a \div b, a % b, b, 4) + 5) \div 10

\* the bearing score of bearings in whole degrees
bear_z_score_E8(cell_deg, neigh_deg) ==
  LET bear_mean == circular_mean_E8(neigh_deg)
      bear_std  == circular_std_E8(neigh_deg)
  IN  IF bear_std = 0 THEN NaN
      ELSE RatioMilli_E8(Abs(delta_bear_E8(deg2rad_E8(cell_deg), bear_mean)),
                         bear_std)

\* np.round(|delta| / bear_std, 3) in thousandths; NaN when bear_std = 0
bear_z_score(cell_deg, neigh_deg) ==
  LET bear_mean == circular_mean(neigh_deg)
      bear_std  == circular_std(neigh_deg)
  IN  IF ~(RightAngled(neigh_deg) /\ cell_deg % 90 = 0)
      THEN bear_z_score_E8(cell_deg, neigh_deg)
      ELSE IF bear_std = 0 THEN NaN
      ELSE RoundRatioMilli(Abs(delta_bear(deg2rad(cell_deg), bear_mean)),
                           bear_std)

----------------------------------------------------------------------------
(* Set-up of the working table (util.py 1870-1893) *)

KeyLess(a, b) ==
  a.File1 < b.File1 \/ (a.File1 = b.File1 /\ a.File2 < b.File2)

\* r placed before the rows of its own key: a sort that is not stable
InsertBeforeEqual(s, r) ==
  LET k == Cardinality({i \in 1..Len(s) : KeyLess(s[i], r)})
  IN  SubSeq(s, 1, k) \o <<r>> \o SubSeq(s, k + 1, Len(s))

\* r placed after every row whose key is not greater than its own
InsertSorted(s, r) ==
  LET k == Cardinality({i \in 1..Len(s) : ~KeyLess(r, s[i])})
  IN  SubSeq(s, 1, k) \o <<r>> \o SubSeq(s, k + 1, Len(s))

RECURSIVE sort_values(_)
\* DataFrame.sort_values(by=['File1', 'File2']): the multi-column sort is
\* pandas' lexsort, which is stable
sort_values(s) ==
  IF s = <<>> THEN <<>>
  ELSE InsertSorted(sort_values(SubSeq(s, 1, Len(s) - 1)), s[Len(s)])

\* grouping by File1 alone
SameFile1(a, b) == a.File1 = b.File1

SameKey(a, b) == a.File1 = b.File1 /\ a.File2 = b.File2

\* groupby(['File1', 'File2'], sort=False).ngroup() + 1: groups are numbered
\* in order of first appearance
ngroup(s, i) ==
  LET first == CHOOSE j \in 1..i :
                 /\ SameKey(s[j], s[i])
                 /\ \A h \in 1..(j - 1) : ~SameKey(s[h], s[i])
  IN  Cardinality({<<s[h].File1, s[h].File2>> : h \in 1..first})

\* the row of out_df made from an input row; src is the position the row had
\* in df (the index that reset_index(drop=True) discards), kept to state the
\* order properties
NewRow(r, src, scene) ==
  [ src |-> src, File1 |-> r.File1, File2 |-> r.File2,
    X1 |-> r.X1, Y1 |-> r.Y1,
    total_distance_km |-> r.total_distance_km, Bear_deg |-> r.Bear_deg,
    bearing_rad |-> deg2rad_E8(r.Bear_deg),
    scene |-> scene,
    outlier_category |-> "01",
    neighbor_indices |-> {},
    neighbor_count |-> 0,
    distance_z_score |-> NaN,
    bearing_z_score |-> NaN ]

Prepared(d) ==
  LET tagged == [i \in 1..Len(d) |->
                   [File1 |-> d[i].File1, File2 |-> d[i].File2,
                    X1 |-> d[i].X1, Y1 |-> d[i].Y1,
                    total_distance_km |-> d[i].total_distance_km,
                    Bear_deg |-> d[i].Bear_deg, src |-> i]]
      sorted == sort_values(tagged)
  IN  [i \in 1..Len(sorted) |-> NewRow(sorted[i], sorted[i].src,
                                       ngroup(sorted, i))]

----------------------------------------------------------------------------
(* One iteration: pool, per-scene builder, classifier (util.py 1900-2060) *)

\* the confident inliers only
PoolOfConfident(tbl) ==
  SetToSeq({i \in 1..Len(tbl) : tbl[i].outlier_category = "01"})

\* pool_df.index: the rows whose category is '00' or '01', ascending
PoolOf(tbl) ==
  SetToSeq({i \in 1..Len(tbl) : tbl[i].outlier_category \in {"00", "01"}})

\* (out_df['outlier_category'] == '01').sum()
InlierCount(tbl) ==
  Cardinality({i \in 1..Len(tbl) : tbl[i].outlier_category = "01"})

\* the scenes of the groups of pool_df.groupby("scene")
ScenesOf(tbl, pool) == {tbl[pool[k]].scene : k \in 1..Len(pool)}

\* the pool rows of every scene: the table not grouped by scene
SceneIndexUngrouped(tbl, pool, scene_id) == pool

\* scene_df.index: the pool rows of one scene, ascending
SceneIndex(tbl, pool, scene_id) ==
  SelectSeq(pool, LAMBDA i : tbl[i].scene = scene_id)

\* the open ball: a point at exactly the radius left out
query_ball_open(tbl, scene_idx, l, radius_m) ==
  {j \in 1..Len(scene_idx) :
     LET dx == tbl[scene_idx[j]].X1 - tbl[scene_idx[l]].X1
         dy == tbl[scene_idx[j]].Y1 - tbl[scene_idx[l]].Y1
     IN  dx * dx + dy * dy < radius_m * radius_m}

\* tree.query_ball_point(xy, r=radius_m)[l]: local positions within the
\* closed ball around local position l (l itself included)
query_ball_point(tbl, scene_idx, l, radius_m) ==
  {j \in 1..Len(scene_idx) :
     LET dx == tbl[scene_idx[j]].X1 - tbl[scene_idx[l]].X1
         dy == tbl[scene_idx[j]].Y1 - tbl[scene_idx[l]].Y1
     IN  dx * dx + dy * dy <= radius_m * radius_m}

\* the position within the scene taken for the index of out_df
TargetLocalIdx(scene_idx, local_idx) == local_idx

\* target_out_idx = scene_df.index[local_idx]
TargetOutIdx(scene_idx, local_idx) == scene_idx[local_idx]

\* an observation without neighbours skipped, its fields left as they were
BuiltRowSkipEmpty(tbl, scene_idx, l, radius_m) ==
  LET local_neighbors == query_ball_point(tbl, scene_idx, l, radius_m)
      neigh_idxs == SetToSeq(local_neighbors \ {l})
      row == tbl[TargetOutIdx(scene_idx, l)]
      cell == tbl[scene_idx[l]]
      neigh_dist == [k \in 1..Len(neigh_idxs) |->
                       tbl[scene_idx[neigh_idxs[k]]].total_distance_km]
      neigh_bear == [k \in 1..Len(neigh_idxs) |->
                       tbl[scene_idx[neigh_idxs[k]]].Bear_deg]
      neigh_out_idx == {scene_idx[neigh_idxs[k]] : k \in 1..Len(neigh_idxs)}
                         \ {TargetOutIdx(scene_idx, l)}
  IN  IF neigh_idxs = <<>>
      THEN row
      ELSE [row EXCEPT !.neighbor_indices = neigh_out_idx,
                       !.neighbor_count = Cardinality(neigh_out_idx),
                       !.distance_z_score =
                          dist_z_score(cell.total_distance_km, neigh_dist),
                       !.bearing_z_score =
                          bear_z_score(cell.Bear_deg, neigh_bear)]

\* the fields written for local position l of a scene
BuiltRow(tbl, scene_idx, l, radius_m) ==
  LET local_neighbors == query_ball_point(tbl, scene_idx, l, radius_m)
      neigh_idxs == SetToSeq(local_neighbors \ {l})
      row == tbl[TargetOutIdx(scene_idx, l)]
      cell == tbl[scene_idx[l]]
      neigh_dist == [k \in 1..Len(neigh_idxs) |->
                       tbl[scene_idx[neigh_idxs[k]]].total_distance_km]
      neigh_bear == [k \in 1..Len(neigh_idxs) |->
                       tbl[scene_idx[neigh_idxs[k]]].Bear_deg]
      neigh_out_idx == {scene_idx[neigh_idxs[k]] : k \in 1..Len(neigh_idxs)}
                         \ {TargetOutIdx(scene_idx, l)}
  IN  IF neigh_idxs = <<>>
      THEN [row EXCEPT !.neighbor_indices = {},
                       !.neighbor_count = 0,
                       !.distance_z_score = NaN,
                       !.bearing_z_score = NaN]
      ELSE [row EXCEPT !.neighbor_indices = neigh_out_idx,
                       !.neighbor_count = Cardinality(neigh_out_idx),
                       !.distance_z_score =
                          dist_z_score(cell.total_distance_km, neigh_dist),
                       !.bearing_z_score =
                          bear_z_score(cell.Bear_deg, neigh_bear)]

\* the z-score columns initialised anew in every iteration: the rows the
\* scene does not write lose their scores
BuildSceneResetting(tbl, pool, scene_id, radius_m) ==
  LET scene_idx == SceneIndex(tbl, pool, scene_id)
      Writers(i) == {l \in 1..Len(scene_idx) : TargetOutIdx(scene_idx, l) = i}
  IN  [i \in 1..Len(tbl) |->
         IF Writers(i) = {}
         THEN IF i \in {pool[k] : k \in 1..Len(pool)} THEN tbl[i]
              ELSE [tbl[i] EXCEPT !.distance_z_score = NaN,
                                  !.bearing_z_score = NaN]
         ELSE LET l == CHOOSE w \in Writers(i) : \A v \in Writers(i) : v <= w
              IN  BuiltRow(tbl, scene_idx, l, radius_m)]

\* the body of the scene loop for one scene: the writes of local positions
\* 1, 2, ... in turn, a later write to a row replacing an earlier one
BuildScene(tbl, pool, scene_id, radius_m) ==
  LET scene_idx == SceneIndex(tbl, pool, scene_id)
      Writers(i) == {l \in 1..Len(scene_idx) : TargetOutIdx(scene_idx, l) = i}
  IN  [i \in 1..Len(tbl) |->
         IF Writers(i) = {} THEN tbl[i]
         ELSE LET l == CHOOSE w \in Writers(i) : \A v \in Writers(i) : v <= w
              IN  BuiltRow(tbl, scene_idx, l, radius_m)]

Exceeds(z) == z # NaN /\ z > Z_THRESHOLD_MILLI

\* the codes of the distance and the bearing reason exchanged
base_cat_swapped(row) ==
  LET distance_filter == Exceeds(row.distance_z_score)
      bearing_filter  == Exceeds(row.bearing_z_score)
  IN  IF distance_filter /\ ~bearing_filter THEN 2
      ELSE IF ~distance_filter /\ bearing_filter THEN 1
      ELSE IF distance_filter /\ bearing_filter THEN 3
      ELSE 0

\* np.select([d & ~b, ~d & b, d & b], [1, 2, 3], default=0)
base_cat(row) ==
  LET distance_filter == Exceeds(row.distance_z_score)
      bearing_filter  == Exceeds(row.bearing_z_score)
  IN  IF distance_filter /\ ~bearing_filter THEN 1
      ELSE IF ~distance_filter /\ bearing_filter THEN 2
      ELSE IF distance_filter /\ bearing_filter THEN 3
      ELSE 0

\* the default of the signature used instead of the argument
confidence_flag_default(row, min_nb) ==
  IF row.neighbor_count >= 10 THEN 1 ELSE 0

\* (out_df["neighbor_count"] >= min_neighbors).astype(np.int8)
statistical_confidence_flag(row, min_nb) ==
  IF row.neighbor_count >= min_nb THEN 1 ELSE 0

\* astype(str) of a one-digit integer
astype_str(d) == <<"0", "1", "2", "3">>[d + 1]

\* the flagged observations taken out of the table
ClassifierDropping(tbl, min_nb) ==
  SelectSeq([i \in 1..Len(tbl) |->
               [tbl[i] EXCEPT !.outlier_category =
                  astype_str(base_cat(tbl[i]))
                    \o astype_str(statistical_confidence_flag(tbl[i], min_nb))]],
            LAMBDA r : r.outlier_category \in {"00", "01"})

\* util.py 2044-2060: the category of every row from its stored fields
Classifier(tbl, min_nb) ==
  [i \in 1..Len(tbl) |->
     [tbl[i] EXCEPT !.outlier_category =
        astype_str(base_cat(tbl[i]))
          \o astype_str(statistical_confidence_flag(tbl[i], min_nb))]]

----------------------------------------------------------------------------
(* Inputs *)
(* Three families of input tables.  A survey table has up to MaxObs        *)
(* observations along a line, 1 km apart, each with one of the drifts of   *)
(* SurveyDrifts: three scenes, one of them with several distances and      *)
(* bearings.  A cluster table has ClusterObs observations of one scene at  *)
(* one position: a distance cluster has distances of ClusterDistSeq and     *)
(* equal bearings, a bearing cluster has distances of DistSeq and bearings *)
(* of BearSeq.  The rows of a table come in the order of their kinds,       *)
(* which is not the order of the scene keys.  The scenario tables are the   *)
(* two worked scenarios of three and four observations, a table with a     *)
(* distance score just above the threshold and tables whose first pass     *)
(* flags every observation of a scene, all run with min_neighbors = 3.     *)

\* <<File1, File2, total_distance_km, Bear_deg>>
SurveyDrifts ==
  << <<2, 1, 0, 90>>, <<1, 2, 1, 90>>, <<1, 1, 0, 90>>,
     <<1, 1, 1, 90>>, <<1, 1, 1, 180>>, <<1, 1, 3, 90>> >>
XSeq == <<0, 1000, 2000>>
DistSeq == <<0, 1, 3>>
BearSeq == <<90, 180, 270>>
ClusterDistSeq == <<0, 1, 3, 6, 10>>
RadiusVals == {1}
MinNeighborsVals == {1, 2, 8}

Obs(f1, f2, x, y, d, b) ==
  [File1 |-> f1, File2 |-> f2, X1 |-> x, Y1 |-> y,
   total_distance_km |-> d, Bear_deg |-> b]

SurveyKinds == Len(SurveyDrifts) * Len(XSeq)

SurveyObs(k) ==
  LET drift == SurveyDrifts[(k % Len(SurveyDrifts)) + 1]
      x     == XSeq[(k \div Len(SurveyDrifts)) + 1]
  IN  Obs(drift[1], drift[2], x, 0, drift[3], drift[4])

DistClusterObs(k) == Obs(1, 1, 0, 0, ClusterDistSeq[k + 1], 90)

BearClusterKinds == Len(DistSeq) * Len(BearSeq)

BearClusterObs(k) ==
  Obs(1, 1, 0, 0, DistSeq[(k \div Len(BearSeq)) + 1],
      BearSeq[(k % Len(BearSeq)) + 1])

RECURSIVE NonDecreasing(_, _, _)
\* the non-decreasing sequences of length n over lo..hi
NonDecreasing(n, lo, hi) ==
  IF n = 0 THEN {<<>>}
  ELSE UNION {{<<k>> \o s : s \in NonDecreasing(n - 1, k, hi)} : k \in lo..hi}

SurveyTables ==
  UNION {{[i \in 1..n |-> SurveyObs(ks[i])] :
            ks \in NonDecreasing(n, 0, SurveyKinds - 1)} : n \in 1..MaxObs}

DistClusterTables ==
  {[i \in 1..ClusterObs |-> DistClusterObs(ks[i])] :
     ks \in NonDecreasing(ClusterObs, 0, Len(ClusterDistSeq) - 1)}

BearClusterTables ==
  {[i \in 1..ClusterObs |-> BearClusterObs(ks[i])] :
     ks \in NonDecreasing(ClusterObs, 0, BearClusterKinds - 1)}

Tables == SurveyTables \cup DistClusterTables \cup BearClusterTables

\* Scenario A: three observations of one scene within the radius, distances
\* 10, 10, 10 km, bearings 45, 45, 46 degrees in every order
ScenarioABearings == {<<45, 45, 46>>, <<45, 46, 45>>, <<46, 45, 45>>}

ScenarioATables ==
  {[i \in 1..3 |-> Obs(1, 1, 100 * (i - 1), 0, 10, b[i])] :
     b \in ScenarioABearings}

\* Scenario B: three observations of about 10 km and one of 80 km, all of
\* bearing 45 degrees, in one scene within the radius
ScenarioBDistSeq == <<9, 10, 12>>
ScenarioBOutlierKm == 80

\* s with x put at position p
InsertAt(s, p, x) == SubSeq(s, 1, p - 1) \o <<x>> \o SubSeq(s, p, Len(s))

ScenarioBTables ==
  {[i \in 1..4 |->
      Obs(1, 1, 100 * (i - 1), 0,
          InsertAt([j \in 1..3 |-> ScenarioBDistSeq[ks[j] + 1]], p,
                   ScenarioBOutlierKm)[i], 45)] :
     ks \in NonDecreasing(3, 0, Len(ScenarioBDistSeq) - 1), p \in 1..4}

\* Four observations of one scene within the radius, of one bearing: three
\* of 0, 18 and 34 km and one of 59 km, whose distance score against the
\* other three is 41.667 / 13.888 = 3.000096
RoundingDistSeq == <<0, 18, 34>>
RoundingCellKm == 59

RoundingTables ==
  {[i \in 1..4 |->
      Obs(1, 1, 100 * (i - 1), 0, InsertAt(RoundingDistSeq, p, RoundingCellKm)[i],
          90)] : p \in 1..4}

\* Two observations of one scene within the radius, of bearings 46 and 120
\* degrees, each the only neighbour of the other: the circular standard
\* deviation of a single such bearing is 1.49e-8 and not 0, the bearing score
\* is of the order of 1e8 and the first pass flags both.  With them, none,
\* one or two observations of a second scene, which no pass flags.
EmptyPoolBearings == <<46, 120>>

EmptyPoolObs(i) ==
  IF i <= Len(EmptyPoolBearings)
  THEN Obs(1, 1, 100 * (i - 1), 0, 10, EmptyPoolBearings[i])
  ELSE Obs(1, 2, 100 * (i - 1), 0, 10, 90)

EmptyPoolTables ==
  {[i \in 1..n |-> EmptyPoolObs(i)] :
     n \in Len(EmptyPoolBearings)..(Len(EmptyPoolBearings) + 2)}

ScenarioTables ==
  ScenarioATables \cup ScenarioBTables \cup RoundingTables \cup EmptyPoolTables
ScenarioMinNeighbors == {3}

----------------------------------------------------------------------------
(* The state machine of outlier_search *)

TypeOK ==
  /\ pc \in {"start", "loop", "scenes", "done"}
  /\ exit_by \in {"none", "break", "exhausted"}
  /\ iter_idx \in 0..iter_count
  /\ n_pass \in 0..iter_count

\* create_netcdf not entered
NetcdfIdle ==
  /\ nc_df = <<>>
  /\ x_coords = <<>>
  /\ y_coords = <<>>
  /\ netcdf_grid = <<>>
  /\ index_mapping = {}
  /\ row_idx = 0
  /\ print_log = <<>>
  /\ nc_pc = "idle"

\* outlier_search not entered
SearchIdle ==
  /\ df = <<>>
  /\ radius_km = 0
  /\ min_neighbors = 0
  /\ iter_count = 0
  /\ out_df = <<>>
  /\ pool_df = <<>>
  /\ iter_idx = 0
  /\ iter_prev_inliers = None
  /\ pending = {}
  /\ scene_log = <<>>
  /\ pc = "idle"
  /\ exit_by = "none"
  /\ n_pass = 0

\* main not entered
MainIdle ==
  /\ args_config_file = FALSE
  /\ json_config = <<>>
  /\ fs = {}
  /\ dir_listing = <<>>
  /\ config = <<>>
  /\ files = <<>>
  /\ file_idx = 0
  /\ calls = <<>>
  /\ rc = None
  /\ main_pc = "idle"

\* the circular statistics not called on their own
CircIdle ==
  /\ angles = <<>>
  /\ circ_cell = None
  /\ circ_mean = None
  /\ circ_std = None
  /\ circ_delta = None
  /\ circ_pc = "idle"

\* detect_outliers not entered
DetectIdle ==
  /\ det_config = <<>>
  /\ det_dir = <<>>
  /\ gfilter_matches = <<>>
  /\ det_idx = 0
  /\ det_log = <<>>
  /\ quiver_payloads = <<>>
  /\ starts = <<>>
  /\ det_pc = "idle"

RestIdle == NetcdfIdle /\ MainIdle /\ CircIdle /\ DetectIdle

Init ==
  /\ RestIdle
  /\ \/ df \in Tables /\ min_neighbors \in MinNeighborsVals
     \/ df \in ScenarioTables /\ min_neighbors \in ScenarioMinNeighbors
  /\ radius_km \in RadiusVals
  /\ iter_count \in 1..MaxIterCount
  /\ out_df = <<>>
  /\ pool_df = <<>>
  /\ iter_idx = 0
  /\ iter_prev_inliers = None
  /\ pending = {}
  /\ scene_log = <<>>
  /\ pc = "start"
  /\ exit_by = "none"
  /\ n_pass = 0

\* util.py 1870-1893: sort by scene key, reset the index, initialise the
\* classification columns, number the scenes
Prepare ==
  /\ pc = "start"
  /\ out_df' = Prepared(df)
  /\ pc' = "loop"
  /\ UNCHANGED rest_vars
  /\ UNCHANGED <<df, radius_km, min_neighbors, iter_count, pool_df, iter_idx,
                 iter_prev_inliers, pending, scene_log, exit_by, n_pass>>

\* one iteration too many
LoopContinuesOffByOne == iter_idx <= iter_count

\* the for statement has another iteration to run
LoopContinues == iter_idx < iter_count

\* the previous count initialised to the size of the table instead of None
StableFromStart ==
  \/ iter_prev_inliers = None /\ InlierCount(out_df) = Len(out_df)
  \/ iter_prev_inliers # None /\ InlierCount(out_df) = iter_prev_inliers

\* util.py 1915-1916: the stability test
Stable ==
  /\ iter_prev_inliers # None
  /\ InlierCount(out_df) = iter_prev_inliers

\* util.py 1900-1918: an iteration starts and is not stopped
IterBegin ==
  /\ pc = "loop"
  /\ LoopContinues
  /\ ~Stable
  /\ pool_df' = PoolOf(out_df)
  /\ iter_prev_inliers' = InlierCount(out_df)
  /\ pending' = ScenesOf(out_df, PoolOf(out_df))
  /\ scene_log' = <<>>
  /\ pc' = "scenes"
  /\ UNCHANGED rest_vars
  /\ UNCHANGED <<df, radius_km, min_neighbors, iter_count, out_df, iter_idx,
                 exit_by, n_pass>>

\* util.py 1915-1917: break
Break ==
  /\ pc = "loop"
  /\ LoopContinues
  /\ Stable
  /\ pool_df' = PoolOf(out_df)
  /\ pc' = "done"
  /\ exit_by' = "break"
  /\ UNCHANGED rest_vars
  /\ UNCHANGED <<df, radius_km, min_neighbors, iter_count, out_df, iter_idx,
                 iter_prev_inliers, pending, scene_log, n_pass>>

\* util.py 1900, 2067: range(iter_count) is exhausted
Exhaust ==
  /\ pc = "loop"
  /\ ~LoopContinues
  /\ pc' = "done"
  /\ exit_by' = "exhausted"
  /\ UNCHANGED rest_vars
  /\ UNCHANGED <<df, radius_km, min_neighbors, iter_count, out_df, pool_df,
                 iter_idx, iter_prev_inliers, pending, scene_log, n_pass>>

\* util.py 1922-1994: the body of the scene loop for one scene.  The code
\* takes the scenes in the order of groupby; the model takes them in any.
SceneStep(scene_id) ==
  /\ pc = "scenes"
  /\ scene_id \in pending
  /\ out_df' = BuildScene(out_df, pool_df, scene_id, radius_km * 1000)
  /\ pending' = pending \ {scene_id}
  /\ scene_log' = Append(scene_log, scene_id)
  /\ UNCHANGED rest_vars
  /\ UNCHANGED <<df, radius_km, min_neighbors, iter_count, pool_df, iter_idx,
                 iter_prev_inliers, pc, exit_by, n_pass>>

\* util.py 2044-2060: the classifier over the whole table ends the iteration
Classify ==
  /\ pc = "scenes"
  /\ pending = {}
  /\ out_df' = Classifier(out_df, min_neighbors)
  /\ iter_idx' = iter_idx + 1
  /\ n_pass' = n_pass + 1
  /\ pc' = "loop"
  /\ UNCHANGED rest_vars
  /\ UNCHANGED <<df, radius_km, min_neighbors, iter_count, pool_df,
                 iter_prev_inliers, pending, scene_log, exit_by>>

Next ==
  \/ Prepare
  \/ IterBegin
  \/ Break
  \/ Exhaust
  \/ \E scene_id \in pending : SceneStep(scene_id)
  \/ Classify

Spec == Init /\ [][Next]_vars

----------------------------------------------------------------------------
(* The run as the code orders it (util.py 1900-2067): the scenes of an     *)
(* iteration in the order of groupby("scene", sort=False), which is the    *)
(* order of first appearance in pool_df and so ascending                   *)

RECURSIVE BuildScenes(_, _, _, _)
BuildScenes(tbl, pool, scenes, radius_m) ==
  IF scenes = <<>> THEN tbl
  ELSE BuildScenes(BuildScene(tbl, pool, Head(scenes), radius_m), pool,
                   Tail(scenes), radius_m)

\* one Builder + Classifier pass over the pool of tbl
OnePass(tbl, r_km, min_nb) ==
  Classifier(BuildScenes(tbl, PoolOf(tbl),
                         SetToSeq(ScenesOf(tbl, PoolOf(tbl))), r_km * 1000),
             min_nb)

RECURSIVE RunLoop(_, _, _, _, _, _)
RunLoop(tbl, prev, k, r_km, min_nb, iters) ==
  IF k >= iters THEN tbl
  ELSE IF prev # None /\ InlierCount(tbl) = prev THEN tbl
  ELSE RunLoop(OnePass(tbl, r_km, min_nb), InlierCount(tbl), k + 1,
               r_km, min_nb, iters)

outlier_search(d, r_km, min_nb, iters) ==
  RunLoop(Prepared(d), None, 0, r_km, min_nb, iters)

----------------------------------------------------------------------------
(* create_netcdf (util.py 497-770): the observations of one data file put  *)
(* on a grid of 1 km cells.  Coordinates are metres of the projection.  A  *)
(* grid index is the 0-based index of the code.  print_log holds, for each *)
(* row taken, what the loop did with it; the code prints the duplicates.   *)

\* the variables create_netcdf does not touch
outside_nc == <<search_vars, main_vars, circ_vars, det_vars>>

\* observations of one data file the model offers to create_netcdf
MaxNcObs == 3

NcX1Seq == <<0, 400, 600>>
NcY1Seq == <<0, 900>>
NcMoveSeq == << <<0, 0>>, <<1500, 1200>> >>
NcBearSeq == <<90>>

NcObs(x1, y1, move, bear) ==
  [X1 |-> x1, Y1 |-> y1, X2 |-> x1 + move[1], Y2 |-> y1 + move[2],
   dx |-> move[1], dy |-> move[2], Speed_kmdy |-> 1 + move[1] \div 1000,
   Bear_deg |-> bear]

NcObsSet ==
  {NcObs(NcX1Seq[a], NcY1Seq[b], NcMoveSeq[c], NcBearSeq[d]) :
     a \in 1..Len(NcX1Seq), b \in 1..Len(NcY1Seq),
     c \in 1..Len(NcMoveSeq), d \in 1..Len(NcBearSeq)}

NcTables == UNION {[1..n -> NcObsSet] : n \in 1..MaxNcObs}

resolution_km == 1

\* df_reduced[[c1, c2]].min().min() and .max().max()
MinOf(S) == CHOOSE m \in S : \A v \in S : m <= v
MaxOf(S) == CHOOSE m \in S : \A v \in S : m >= v

\* np.arange(lo, hi, step): lo, lo + step, ... below hi
arange(lo, hi, step) ==
  [k \in 1..((hi - lo + step - 1) \div step) |-> lo + (k - 1) * step]

\* np.argmin(np.abs(coords - v)): the index of the nearest coordinate, the
\* first of them on a tie
argmin_abs(coords, v) ==
  (CHOOSE k \in 1..Len(coords) :
     /\ \A j \in 1..Len(coords) : Abs(coords[k] - v) <= Abs(coords[j] - v)
     /\ \A j \in 1..Len(coords) :
          Abs(coords[j] - v) = Abs(coords[k] - v) => k <= j) - 1

\* a cell of np.full(grid_shape, np.nan), for the four variables
NaNCell == [Speed_kmdy |-> NaN, dx |-> NaN, dy |-> NaN, Bear_deg |-> NaN]

CellOf(row) ==
  [Speed_kmdy |-> row.Speed_kmdy, dx |-> row.dx, dy |-> row.dy,
   Bear_deg |-> row.Bear_deg]

\* index_key = (y_idx, x_idx) of a row
index_key(row) == <<argmin_abs(y_coords, row.Y1), argmin_abs(x_coords, row.X1)>>

InitNetcdf ==
  /\ SearchIdle
  /\ MainIdle
  /\ CircIdle
  /\ DetectIdle
  /\ nc_df \in NcTables
  /\ x_coords = <<>>
  /\ y_coords = <<>>
  /\ netcdf_grid = <<>>
  /\ index_mapping = {}
  /\ row_idx = 0
  /\ print_log = <<>>
  /\ nc_pc = "start"

\* util.py 579-727: the extent, the coordinates, the empty grid, the empty
\* index_mapping
NcGrid ==
  /\ nc_pc = "start"
  /\ LET xs == {nc_df[i].X1 : i \in 1..Len(nc_df)}
               \cup {nc_df[i].X2 : i \in 1..Len(nc_df)}
         ys == {nc_df[i].Y1 : i \in 1..Len(nc_df)}
               \cup {nc_df[i].Y2 : i \in 1..Len(nc_df)}
         xc == arange(MinOf(xs), MaxOf(xs), resolution_km * 1000)
         yc == arange(MinOf(ys), MaxOf(ys), resolution_km * 1000)
     IN  /\ x_coords' = xc
         /\ y_coords' = yc
         /\ netcdf_grid' = [c \in (0..(Len(yc) - 1)) \X (0..(Len(xc) - 1))
                              |-> NaNCell]
  /\ index_mapping' = {}
  /\ row_idx' = 0
  /\ nc_pc' = "mapping"
  /\ UNCHANGED <<nc_df, print_log>>
  /\ UNCHANGED outside_nc

\* util.py 740-745: the else branch; index_mapping is left as it is
StoreRow(row) ==
  /\ netcdf_grid' = [netcdf_grid EXCEPT ![index_key(row)] = CellOf(row)]
  /\ index_mapping' = index_mapping

\* util.py 728-745: one turn of the loop over df_reduced.iterrows()
NcMapRow ==
  /\ nc_pc = "mapping"
  /\ row_idx < Len(nc_df)
  /\ x_coords # <<>> /\ y_coords # <<>>
  /\ LET row == nc_df[row_idx + 1]
     IN  IF index_key(row) \in index_mapping
         THEN /\ print_log' = Append(print_log, "duplicate")
              /\ UNCHANGED <<netcdf_grid, index_mapping>>
         ELSE /\ print_log' = Append(print_log, "stored")
              /\ StoreRow(row)
  /\ row_idx' = row_idx + 1
  /\ UNCHANGED <<nc_df, x_coords, y_coords, nc_pc>>
  /\ UNCHANGED outside_nc

\* util.py 730-731: np.argmin of an empty array raises ValueError; the
\* finally clause closes the grid and the exception leaves create_netcdf
NcArgminRaises ==
  /\ nc_pc = "mapping"
  /\ row_idx < Len(nc_df)
  /\ x_coords = <<>> \/ y_coords = <<>>
  /\ nc_pc' = "raised"
  /\ UNCHANGED <<nc_df, x_coords, y_coords, netcdf_grid, index_mapping,
                 row_idx, print_log>>
  /\ UNCHANGED outside_nc

\* util.py 749-770: the grid written to the .nc file
NcSave ==
  /\ nc_pc = "mapping"
  /\ row_idx = Len(nc_df)
  /\ nc_pc' = "saved"
  /\ UNCHANGED <<nc_df, x_coords, y_coords, netcdf_grid, index_mapping,
                 row_idx, print_log>>
  /\ UNCHANGED outside_nc

NextNetcdf == NcGrid \/ NcMapRow \/ NcArgminRaises \/ NcSave

SpecNetcdf == InitNetcdf /\ [][NextNetcdf]_vars

----------------------------------------------------------------------------
(* circular_mean, circular_std and the bearing residual as pure functions *)
(* (util.py 1194-1204, 1972-1975), applied to arrays of up to MaxAngles    *)
(* bearings in whole degrees                                               *)

outside_circ == <<search_vars, nc_vars, main_vars, det_vars>>

MaxAngles == 3

\* bearings on both sides of north, a degree apart around 45 degrees, and
\* spread evenly over the circle
DegVals == {1, 2, 359, 45, 46, 0, 120, 240}

AngleArrays == UNION {[1..n -> DegVals] : n \in 1..MaxAngles}

\* what np.arctan2 can return on rounding residue
ResidueAngles == {-PI_E8, -HALF_PI_E8, 0, HALF_PI_E8, PI_E8}

InitCirc ==
  /\ SearchIdle
  /\ NetcdfIdle
  /\ MainIdle
  /\ DetectIdle
  /\ angles \in AngleArrays
  /\ circ_cell = None
  /\ circ_mean = None
  /\ circ_std = None
  /\ circ_delta = None
  /\ circ_pc = "start"

\* bear_mean = circular_mean(neigh_bear); of cancelling bearings the float
\* means are residue of the order 1e-16 and the angle is any
CircMean ==
  /\ circ_pc = "start"
  /\ IF Cancelling(angles)
     THEN circ_mean' \in ResidueAngles
     ELSE circ_mean' = circular_mean_E8(angles)
  /\ circ_pc' = "mean"
  /\ UNCHANGED <<angles, circ_cell, circ_std, circ_delta>>
  /\ UNCHANGED outside_circ

\* bear_std = circular_std(neigh_bear)
CircStd ==
  /\ circ_pc = "mean"
  /\ circ_std' = circular_std_E8(angles)
  /\ circ_pc' = "std"
  /\ UNCHANGED <<angles, circ_cell, circ_mean, circ_delta>>
  /\ UNCHANGED outside_circ

\* delta_bear = arctan2(sin(cell_bear - bear_mean), cos(cell_bear - bear_mean))
CircDelta ==
  /\ circ_pc = "std"
  /\ \E d \in DegVals :
       /\ circ_cell' = d
       /\ circ_delta' = delta_bear_E8(deg2rad_E8(d), circ_mean)
  /\ circ_pc' = "done"
  /\ UNCHANGED <<angles, circ_mean, circ_std>>
  /\ UNCHANGED outside_circ

NextCirc ==
  \/ CircMean
  \/ CircStd
  \/ CircDelta

SpecCirc == InitCirc /\ [][NextCirc]_vars

----------------------------------------------------------------------------
(* Vocabulary of the properties *)

Rows == 1..Len(out_df)

\* the reason digit of a category
ReasonOf(cat) ==
  CASE cat \in {"00", "01"} -> 0
    [] cat \in {"10", "11"} -> 1
    [] cat \in {"20", "21"} -> 2
    [] cat \in {"30", "31"} -> 3

\* a classification pass has just ended; pool_df is the pool it ran on
AfterPass == pc = "loop" /\ n_pass >= 1

InPool(i) == \E k \in 1..Len(pool_df) : pool_df[k] = i

WithinRadius(i, j) ==
  LET dx == out_df[i].X1 - out_df[j].X1
      dy == out_df[i].Y1 - out_df[j].Y1
  IN  dx * dx + dy * dy <= (radius_km * 1000) * (radius_km * 1000)

\* the other members of the pool, of the scene of i, within the radius of i
PoolNeighbors(i) ==
  {j \in Rows : /\ j # i
                /\ InPool(j)
                /\ out_df[j].scene = out_df[i].scene
                /\ WithinRadius(i, j)}

----------------------------------------------------------------------------
(* C1 *)

\* C1: whenever the loop is left through the stability test, one more
\* Builder + Classifier pass on the resulting table changes the
\* outlier_category of no observation.
C1_IdempotentAfterBreak ==
  (pc = "done" /\ exit_by = "break") =>
    \A i \in Rows :
      OnePass(out_df, radius_km, min_neighbors)[i].outlier_category
        = out_df[i].outlier_category

----------------------------------------------------------------------------
(* C2 *)

\* steps the run has left at most
Rank ==
  LET W == Len(df) + 3
  IN  CASE pc = "start"  -> (iter_count + 1) * W
        [] pc = "loop"   -> (iter_count - iter_idx) * W + W - 1
        [] pc = "scenes" -> (iter_count - iter_idx) * W + Cardinality(pending) + 1
        [] pc = "done"   -> 0

C2_Bounded ==
  /\ n_pass <= iter_count
  /\ pc = "done" =>
       /\ exit_by \in {"break", "exhausted"}
       /\ Len(out_df) = Len(df)
       /\ {out_df[i].src : i \in Rows} = 1..Len(df)
       /\ \A i \in Rows : out_df[i].outlier_category \in
            {"00", "01", "10", "11", "20", "21", "30", "31"}
       /\ exit_by = "exhausted" => n_pass = iter_count
  /\ Rank >= 0
  /\ Rank = 0 <=> pc = "done"

\* C2: a run makes at most iter_count classification passes; every step
\* lowers a rank that is zero at the return only, so the run ends; and it
\* ends returning the full classified table, by the stability test or by
\* exhausting iter_count after exactly iter_count passes, which is a return
\* like the other.
C2_Termination == [](C2_Bounded) /\ [][Rank' < Rank]_vars

\* iter_count exhausted while the count of the stability test still moved
C2_Witness ==
  /\ pc = "done"
  /\ exit_by = "exhausted"
  /\ n_pass = iter_count
  /\ InlierCount(out_df) # iter_prev_inliers

----------------------------------------------------------------------------
(* C3 *)

PoolSize(tbl) ==
  Cardinality({i \in 1..Len(tbl) : ReasonOf(tbl[i].outlier_category) = 0})

\* C3: from one state of a run to the next, no observation goes from a
\* reason 1, 2 or 3 back to reason 0, and the number of observations of
\* reason 0 does not grow.
C3_Monotone ==
  [][pc # "start" =>
       /\ \A i \in Rows :
            ReasonOf(out_df[i].outlier_category) # 0
              => ReasonOf(out_df'[i].outlier_category) # 0
       /\ PoolSize(out_df') <= PoolSize(out_df)]_vars

\* a pass has run on a pool that an earlier pass had taken an observation from
C3_Witness ==
  /\ AfterPass
  /\ n_pass >= 2
  /\ \E i \in Rows : ~InPool(i) /\ ReasonOf(out_df[i].outlier_category) # 0

----------------------------------------------------------------------------
(* C4 *)

\* C4 as claimed: the returned table lists the observations in the order of
\* the input table.
C4_InputOrderKept ==
  pc = "done" => \A i \in Rows : out_df[i].src = i

InputOf(i) == df[out_df[i].src]

\* C4 as amended: the returned table lists the observations of the input,
\* each once and with its input values, in the order of a stable sort by
\* (File1, File2): ascending keys, and input order among equal keys; the
\* classification fields go by the position in that sorted table, the
\* neighbor_indices of a row naming rows of its scene within the radius.
C4_StableSceneOrder ==
  pc # "start" =>
    /\ Len(out_df) = Len(df)
    /\ {out_df[i].src : i \in Rows} = 1..Len(df)
    /\ \A i \in Rows :
         /\ out_df[i].File1 = InputOf(i).File1
         /\ out_df[i].File2 = InputOf(i).File2
         /\ out_df[i].X1 = InputOf(i).X1
         /\ out_df[i].Y1 = InputOf(i).Y1
         /\ out_df[i].total_distance_km = InputOf(i).total_distance_km
         /\ out_df[i].Bear_deg = InputOf(i).Bear_deg
         /\ \A j \in out_df[i].neighbor_indices :
              /\ j \in Rows \ {i}
              /\ SameKey(out_df[i], out_df[j])
              /\ WithinRadius(i, j)
    /\ \A i, j \in Rows :
         i < j => \/ KeyLess(out_df[i], out_df[j])
                  \/ SameKey(out_df[i], out_df[j])
                       /\ out_df[i].src < out_df[j].src

\* a returned table whose order is not the input's, with neighbours found
C4_Witness ==
  /\ pc = "done"
  /\ \E i \in Rows : out_df[i].src # i
  /\ \E i \in Rows : out_df[i].neighbor_indices # {}
  /\ \E i, j \in Rows :
       i < j /\ SameKey(out_df[i], out_df[j]) /\ out_df[i] # out_df[j]

----------------------------------------------------------------------------
(* C5 *)

\* C5: whatever the order the scenes are taken in within each iteration, the
\* returned table is the one of the run that takes them in the order of the
\* code: every outlier_category, neighbor_count, distance_z_score and
\* bearing_z_score is decided by the input table and the configuration.
C5_SceneOrderFree ==
  pc = "done" =>
    out_df = outlier_search(df, radius_km, min_neighbors, iter_count)

\* a run ended whose last iteration took the scenes out of the code's order
C5_Witness ==
  /\ pc = "done"
  /\ \E a, b \in 1..Len(scene_log) : a < b /\ scene_log[a] > scene_log[b]
  /\ \E i \in Rows : out_df[i].neighbor_count > 0

----------------------------------------------------------------------------
(* C6 *)

\* C6: after a classification pass, every observation that was in the pool
\* of the pass and had no other pool member of its scene within the radius
\* has neighbor_count 0, both z-scores not-a-number and reason 0.
C6_EmptyNeighborSet ==
  AfterPass =>
    \A i \in Rows :
      (InPool(i) /\ PoolNeighbors(i) = {}) =>
        /\ out_df[i].neighbor_count = 0
        /\ out_df[i].neighbor_indices = {}
        /\ out_df[i].distance_z_score = NaN
        /\ out_df[i].bearing_z_score = NaN
        /\ ReasonOf(out_df[i].outlier_category) = 0

\* a pool member left alone by an earlier pass: the observation of its scene
\* within its radius is no longer in the pool, and it had neighbours before
C6_Witness ==
  /\ AfterPass
  /\ n_pass >= 2
  /\ \E i \in Rows :
       /\ InPool(i)
       /\ PoolNeighbors(i) = {}
       /\ \E j \in Rows \ {i} :
            /\ ~InPool(j)
            /\ out_df[j].scene = out_df[i].scene
            /\ WithinRadius(i, j)
            /\ i \in out_df[j].neighbor_indices

----------------------------------------------------------------------------
(* C7 *)

ExpectedCategory(row) ==
  LET d == row.distance_z_score # NaN /\ row.distance_z_score > Z_THRESHOLD_MILLI
      b == row.bearing_z_score # NaN /\ row.bearing_z_score > Z_THRESHOLD_MILLI
      c == row.neighbor_count >= min_neighbors
  IN  CASE  d /\  b /\  c -> "31"
        []  d /\  b /\ ~c -> "30"
        []  d /\ ~b /\  c -> "11"
        []  d /\ ~b /\ ~c -> "10"
        [] ~d /\  b /\  c -> "21"
        [] ~d /\  b /\ ~c -> "20"
        [] ~d /\ ~b /\  c -> "01"
        [] ~d /\ ~b /\ ~c -> "00"

\* C7: after every classification pass the category of every observation,
\* in the pool or not, is the reason digit followed by the confidence digit,
\* both read from the stored fields of the observation: reason 3 when both
\* z-scores exceed 3, 1 when the distance z-score alone does, 2 when the
\* bearing z-score alone does, else 0, a not-a-number never exceeding;
\* confidence 1 exactly when neighbor_count >= min_neighbors.
C7_ClassifierMapping ==
  (pc \in {"loop", "done"} /\ n_pass >= 1) =>
    \A i \in Rows : out_df[i].outlier_category = ExpectedCategory(out_df[i])

\* a pass that found both z-scores of an observation above the threshold
\* and enough neighbours for it
C7_Witness ==
  /\ AfterPass
  /\ \E i \in Rows : out_df[i].outlier_category = "31"
  /\ \E i \in Rows : ReasonOf(out_df[i].outlier_category) = 0

----------------------------------------------------------------------------
(* C8 *)

\* C8: two observations have the same scene id exactly when their
\* (File1, File2) pairs are equal, and no step of the run changes the scene
\* id of an observation.
C8_ScenePartition ==
  /\ [](pc # "start" =>
          \A i, j \in Rows :
            out_df[i].scene = out_df[j].scene
              <=> (out_df[i].File1 = out_df[j].File1
                     /\ out_df[i].File2 = out_df[j].File2))
  /\ [][pc # "start" =>
          \A i \in Rows : out_df'[i].scene = out_df[i].scene]_vars

\* a finished run over scenes that share File1 and differ in File2, and
\* over scenes that share File2 and differ in File1
C8_Witness ==
  /\ pc = "done"
  /\ n_pass >= 1
  /\ \E i, j \in Rows :
       out_df[i].File1 = out_df[j].File1 /\ out_df[i].File2 # out_df[j].File2
  /\ \E i, j \in Rows :
       out_df[i].File1 # out_df[j].File1 /\ out_df[i].File2 = out_df[j].File2

----------------------------------------------------------------------------
(* C9 *)

\* C9: with iter_count = 1 the run makes exactly one Builder + Classifier
\* pass and returns, the stability test stopping it neither before nor
\* after the pass.
C9_SinglePass ==
  (iter_count = 1 /\ pc = "done") =>
    /\ n_pass = 1
    /\ exit_by = "exhausted"
    /\ out_df = OnePass(Prepared(df), radius_km, min_neighbors)

\* iter_count = 1, returned after a pass that took observations out of the
\* pool, or after a pass that left the count of the stability test as it was
C9_Witness ==
  /\ iter_count = 1
  /\ pc = "done"
  /\ n_pass = 1
  /\ \/ PoolSize(out_df) < Len(out_df)
     \/ InlierCount(out_df) = iter_prev_inliers

----------------------------------------------------------------------------
(* C10 *)

Dists(i) == [k \in 1..Len(SetToSeq(PoolNeighbors(i))) |->
               out_df[SetToSeq(PoolNeighbors(i))[k]].total_distance_km]

Bears(i) == [k \in 1..Len(SetToSeq(PoolNeighbors(i))) |->
               out_df[SetToSeq(PoolNeighbors(i))[k]].Bear_deg]

\* the neighbours' distances have standard deviation zero
DistStdZero(i) ==
  PoolNeighbors(i) # {} /\ \A k \in 1..Len(Dists(i)) : Dists(i)[k] = Dists(i)[1]

\* the neighbours' bearings have circular standard deviation zero or NaN
BearStdZero(i) ==
  /\ PoolNeighbors(i) # {}
  /\ IF RightAngled(Bears(i)) THEN circular_std(Bears(i)) = 0
     ELSE circular_std_E8(Bears(i)) = 0

Degenerate(i) ==
  InPool(i) /\ (PoolNeighbors(i) = {} \/ DistStdZero(i) \/ BearStdZero(i))

\* C10 as claimed: after a pass, an observation of the pool whose neighbour
\* set is empty, or whose neighbours have a zero or not-a-number standard
\* deviation of distance or of bearing, has reason 0.
C10_DegenerateReasonZero ==
  AfterPass =>
    \A i \in Rows :
      Degenerate(i) => ReasonOf(out_df[i].outlier_category) = 0

\* C10 as amended: after a pass, for an observation of the pool, an empty
\* neighbour set leaves both z-scores not-a-number and the reason 0; a zero
\* standard deviation of the neighbours' distances leaves distance_z_score
\* not-a-number and the distance unflagged (reason 0 or 2); a zero circular
\* standard deviation of the neighbours' bearings leaves bearing_z_score
\* not-a-number and the bearing unflagged (reason 0 or 1).  The other metric
\* is still scored and may still flag the observation.
C10_DegenerateMetricUnflagged ==
  AfterPass =>
    \A i \in Rows :
      InPool(i) =>
        /\ PoolNeighbors(i) = {} =>
             /\ out_df[i].distance_z_score = NaN
             /\ out_df[i].bearing_z_score = NaN
             /\ ReasonOf(out_df[i].outlier_category) = 0
        /\ DistStdZero(i) =>
             /\ out_df[i].distance_z_score = NaN
             /\ ReasonOf(out_df[i].outlier_category) \in {0, 2}
        /\ BearStdZero(i) =>
             /\ out_df[i].bearing_z_score = NaN
             /\ ReasonOf(out_df[i].outlier_category) \in {0, 1}

\* the neighbours' bearings degenerate, the bearing z-score not-a-number,
\* and the distance z-score flagging the observation all the same
C10_Witness ==
  /\ AfterPass
  /\ \E i \in Rows :
       /\ InPool(i)
       /\ BearStdZero(i)
       /\ out_df[i].bearing_z_score = NaN
       /\ ReasonOf(out_df[i].outlier_category) = 1

----------------------------------------------------------------------------
(* C11 *)

\* thresholds a configuration of the classifier would ask for, thousandths
ZThresholdVals == {2000, 3000, 4000}

ConfOf(cat) == IF cat \in {"01", "11", "21", "31"} THEN 1 ELSE 0

distance_flag(i) == ReasonOf(out_df[i].outlier_category) \in {1, 3}

bearing_flag(i) == ReasonOf(out_df[i].outlier_category) \in {2, 3}

Classified == pc \in {"loop", "done"} /\ n_pass >= 1

\* C11 as claimed: whatever z_threshold t > 0 is configured, after a pass
\* distance_flag holds exactly when distance_z > t and bearing_flag exactly
\* when bearing_z > t, and the confidence digit is 1 exactly when
\* neighbor_count >= min_neighbors.
C11_AnyThreshold ==
  Classified =>
    \A t \in ZThresholdVals : \A i \in Rows :
      /\ distance_flag(i) <=>
           (out_df[i].distance_z_score # NaN /\ out_df[i].distance_z_score > t)
      /\ bearing_flag(i) <=>
           (out_df[i].bearing_z_score # NaN /\ out_df[i].bearing_z_score > t)
      /\ ConfOf(out_df[i].outlier_category) = 1
           <=> out_df[i].neighbor_count >= min_neighbors

\* C11 as amended: min_neighbors is a parameter of outlier_search and the
\* confidence digit is 1 exactly when neighbor_count >= the min_neighbors of
\* the call; the z-score threshold is not a parameter: distance_flag holds
\* exactly when the stored distance_z_score > 3 and bearing_flag exactly
\* when the stored bearing_z_score > 3, whatever the configuration.
C11_FixedThreshold ==
  Classified =>
    \A i \in Rows :
      /\ distance_flag(i) <=>
           (out_df[i].distance_z_score # NaN /\ out_df[i].distance_z_score > 3000)
      /\ bearing_flag(i) <=>
           (out_df[i].bearing_z_score # NaN /\ out_df[i].bearing_z_score > 3000)
      /\ ConfOf(out_df[i].outlier_category) = 1
           <=> out_df[i].neighbor_count >= min_neighbors

\* a call with a min_neighbors other than the default that the neighbour
\* counts of the table reach, and a z-score between 2 and 3 left unflagged
C11_Witness ==
  /\ Classified
  /\ min_neighbors = 2
  /\ \E i \in Rows : ConfOf(out_df[i].outlier_category) = 1
  /\ \E i \in Rows :
       /\ out_df[i].distance_z_score > 2000
       /\ out_df[i].distance_z_score <= 3000
       /\ ~distance_flag(i)

----------------------------------------------------------------------------
(* C19 *)

\* C19: at every iteration after the first, the loop stops, running neither
\* the Builder nor the Classifier, exactly when the pool (the observations
\* of reason 0, categories '00' and '01') has as many observations as the
\* pool of the iteration before; otherwise it runs the pass.
C19_StopOnPoolSize ==
  [][(pc = "loop" /\ n_pass >= 1 /\ iter_idx < iter_count) =>
       /\ pc' \in {"done", "scenes"}
       /\ pc' = "done" <=> Len(PoolOf(out_df)) = Len(pool_df)
       /\ pc' = "done" => (out_df' = out_df /\ n_pass' = n_pass)]_vars

----------------------------------------------------------------------------
(* C20 *)

\* C20: an observation that is not in the pool of an iteration (its reason
\* is 1, 2 or 3) keeps its neighbor_indices, neighbor_count,
\* distance_z_score, bearing_z_score and outlier_category through every
\* step of the pass of that iteration, builder and classifier, and no step
\* of the run takes an observation out of the table.
C20_Freeze ==
  [][pc # "start" =>
       /\ Len(out_df') = Len(out_df)
       /\ \A i \in Rows : out_df'[i].src = out_df[i].src
       /\ pc = "scenes" =>
            \A i \in Rows :
              ~InPool(i) =>
                /\ ReasonOf(out_df[i].outlier_category) # 0
                /\ out_df'[i].neighbor_indices = out_df[i].neighbor_indices
                /\ out_df'[i].neighbor_count = out_df[i].neighbor_count
                /\ out_df'[i].distance_z_score = out_df[i].distance_z_score
                /\ out_df'[i].bearing_z_score = out_df[i].bearing_z_score
                /\ out_df'[i].outlier_category = out_df[i].outlier_category]_vars

\* a later pass has rebuilt the pool rows of a scene, with fewer neighbours,
\* around an excluded observation that still names the neighbours it had
C20_Witness ==
  /\ AfterPass
  /\ n_pass >= 2
  /\ \E i, j \in Rows :
       /\ ~InPool(i)
       /\ InPool(j)
       /\ out_df[i].scene = out_df[j].scene
       /\ j \in out_df[i].neighbor_indices
       /\ i \notin out_df[j].neighbor_indices
       /\ out_df[j].neighbor_count < out_df[i].neighbor_count

----------------------------------------------------------------------------
(* C16 *)

\* the rows create_netcdf has taken that went to the grid cell of row i
SameCell(i) == {j \in 1..row_idx : index_key(nc_df[j]) = index_key(nc_df[i])}

\* C16: when create_netcdf has written the file, every grid cell that
\* observations were mapped to holds the values of the first of them, and
\* every later observation of the cell was skipped with the duplicate
\* warning, the first one being stored.
C16_FirstObservationKept ==
  nc_pc = "saved" =>
    \A i \in 1..Len(nc_df) :
      LET first == MinOf(SameCell(i))
      IN  /\ netcdf_grid[index_key(nc_df[i])] = CellOf(nc_df[first])
          /\ print_log[i] = IF i = first THEN "stored" ELSE "duplicate"


\* ------------------------------------------------------------------
\* read_json_config and main (src/sar_drift_converter.py)
\* ------------------------------------------------------------------

outside_main == <<search_vars, nc_vars, circ_vars, det_vars>>

\* largest number of places where the drawn config file and its
\* environment differ from the well-formed baseline
MaxChanged == 2

\* a JSON value: its Python type after json.load and an integer payload
\* (booleans 0/1, strings without payload)
Bool(b) == [t |-> "bool", v |-> IF b THEN 1 ELSE 0]
Int_(n) == [t |-> "int", v |-> n]
Float_(n) == [t |-> "float", v |-> n]
Str == [t |-> "str", v |-> 0]

\* isinstance(x, bool); isinstance(x, int) also accepts a bool;
\* isinstance(x, float) does not accept an int
IsBool(x) == x.t = "bool"
IsInt(x) == x.t \in {"int", "bool"}
IsFloat(x) == x.t = "float"

required_json_keys ==
  {"sar_drift_directory", "sar_drift_filename", "sar_geotiff_filename",
   "netcdf_cdl_file", "output_dir", "batch_process", "delimiter",
   "skip_rows_before_header", "detect_outliers", "ignore_vector_threshold",
   "use_geotiff", "create_region_plot", "vector_stride",
   "inlier_vector_stride", "quiver_scale_small_area",
   "quiver_scale_large_area", "precision", "verbose"}

PathKeys ==
  {"sar_drift_directory", "sar_drift_filename", "sar_geotiff_filename",
   "netcdf_cdl_file", "output_dir"}

UnexpectedKeys == {"z_threshold", "radius_km"}

\* a well-formed config file: single-file mode, outlier detection on
BaselineJson ==
  [k \in required_json_keys |->
     CASE k \in PathKeys -> Str
       [] k = "delimiter" -> Str
       [] k = "batch_process" -> Bool(FALSE)
       [] k \in {"detect_outliers", "use_geotiff", "create_region_plot",
                 "verbose"} -> Bool(TRUE)
       [] k = "skip_rows_before_header" -> Int_(0)
       [] k \in {"ignore_vector_threshold", "vector_stride",
                 "inlier_vector_stride"} -> Int_(1)
       [] k = "precision" -> Int_(3)
       [] OTHER -> Float_(1)]

\* the other values a key is drawn with
AltValues(k) ==
  CASE k = "batch_process" -> {Bool(TRUE), Str}
    [] k \in {"detect_outliers", "use_geotiff"} -> {Bool(FALSE), Int_(1)}
    [] k \in {"create_region_plot", "verbose"} -> {Bool(FALSE), Str}
    [] k = "delimiter" -> {Int_(1)}
    [] k = "skip_rows_before_header" -> {Int_(-1), Bool(TRUE), Str}
    [] k \in {"ignore_vector_threshold", "vector_stride"} ->
         {Int_(0), Float_(1)}
    [] k = "inlier_vector_stride" -> {Int_(0), Str}
    [] k = "precision" -> {Int_(-1), Str}
    [] k \in {"quiver_scale_small_area", "quiver_scale_large_area"} ->
         {Int_(1), Str}
    [] OTHER -> {}

\* one difference from the baseline
Changes ==
  [op : {"drop"}, key : required_json_keys, val : {Str}]
    \cup [op : {"add"}, key : UnexpectedKeys, val : {Str}]
    \cup UNION {[op : {"set"}, key : {k}, val : AltValues(k)] :
                  k \in required_json_keys}
    \cup [op : {"rm_path"}, key : PathKeys, val : {Str}]
    \cup [op : {"no_arg"}, key : {"config_file"}, val : {Str}]

RECURSIVE SubsetsUpTo(_, _)
SubsetsUpTo(S, n) ==
  IF n = 0 THEN {{}}
  ELSE LET P == SubsetsUpTo(S, n - 1)
       IN P \cup {T \cup {x} : T \in P, x \in S}

\* at most one drop or set per key
Consistent(D) ==
  \A c \in D : \A d \in D :
    (c # d /\ c.op \in {"drop", "set"} /\ d.op \in {"drop", "set"})
      => c.key # d.key

JsonOf(D) ==
  LET dropped == {c.key : c \in {d \in D : d.op = "drop"}}
      added == {c.key : c \in {d \in D : d.op = "add"}}
      sets == {d \in D : d.op = "set"}
  IN [k \in (required_json_keys \ dropped) \cup added |->
        IF \E c \in sets : c.key = k
        THEN (CHOOSE c \in sets : c.key = k).val
        ELSE IF k \in required_json_keys THEN BaselineJson[k] ELSE Str]

\* directory listings returned by glob
DirListings ==
  {<<>>, <<"a.txt">>, <<"a.txt", "notes.dat", "b.csv">>}

\* '.txt' in file or '.csv' in file
IsDataFile(f) == f \in {"a.txt", "b.csv"}

InitMain ==
  /\ SearchIdle
  /\ NetcdfIdle
  /\ CircIdle
  /\ DetectIdle
  /\ \E D \in {E \in SubsetsUpTo(Changes, MaxChanged) : Consistent(E)} :
       /\ args_config_file = ~(\E c \in D : c.op = "no_arg")
       /\ json_config = JsonOf(D)
       /\ fs = PathKeys \ {c.key : c \in {d \in D : d.op = "rm_path"}}
  /\ dir_listing \in DirListings
  /\ config = <<>>
  /\ files = <<>>
  /\ file_idx = 0
  /\ calls = <<>>
  /\ rc = None
  /\ main_pc = "start"

\* the status read_json_config exits with, 0 when it returns a config;
\* an uncaught exception ends the interpreter with status 1
exit_status(arg, json, exists) ==
  LET missing == required_json_keys \ DOMAIN json
      extra == DOMAIN json \ required_json_keys
  IN
  IF ~arg THEN 1
  ELSE IF missing # {} THEN 2
  ELSE IF extra # {} THEN 3
  ELSE IF ~IsBool(json["batch_process"]) THEN 4
  ELSE IF "sar_drift_directory" \notin exists
          /\ json["batch_process"].v = 1 THEN 5
  ELSE IF "sar_drift_filename" \notin exists
          /\ json["batch_process"].v = 0 THEN 6
  ELSE IF ~IsBool(json["use_geotiff"]) THEN 7
  ELSE IF "sar_geotiff_filename" \notin exists
          /\ json["use_geotiff"].v = 1 THEN 8
  ELSE IF "netcdf_cdl_file" \notin exists THEN 9
  ELSE IF "output_dir" \notin exists THEN 10
  ELSE IF json["delimiter"].t # "str" THEN 1
  ELSE IF ~IsInt(json["skip_rows_before_header"]) THEN 11
  ELSE IF json["skip_rows_before_header"].v < 0 THEN 12
  ELSE IF ~IsBool(json["detect_outliers"]) THEN 13
  ELSE IF ~IsInt(json["ignore_vector_threshold"]) THEN 14
  ELSE IF json["ignore_vector_threshold"].v < 1 THEN 15
  ELSE IF ~IsBool(json["create_region_plot"]) THEN 16
  ELSE IF ~IsInt(json["vector_stride"]) THEN 17
  ELSE IF json["vector_stride"].v < 1 THEN 18
  ELSE IF ~IsInt(json["inlier_vector_stride"]) THEN 19
  ELSE IF json["vector_stride"].v < 1 THEN 20
  ELSE IF ~IsFloat(json["quiver_scale_small_area"]) THEN 21
  ELSE IF ~IsFloat(json["quiver_scale_large_area"]) THEN 22
  ELSE IF ~IsInt(json["precision"]) THEN 23
  ELSE IF ~IsBool(json["verbose"]) THEN 24
  ELSE 0

\* the dictionary read_json_config returns
config_dict(json) ==
  [batch_process |-> json["batch_process"].v = 1,
   detect_outliers |-> json["detect_outliers"].v = 1,
   use_geotiff |-> json["use_geotiff"].v = 1,
   create_region_plot |-> json["create_region_plot"].v = 1,
   verbose |-> json["verbose"].v = 1,
   skip_rows_before_header |-> json["skip_rows_before_header"].v,
   ignore_vector_threshold |-> json["ignore_vector_threshold"].v,
   vector_stride |-> json["vector_stride"].v,
   inlier_vector_stride |-> json["inlier_vector_stride"].v,
   precision |-> json["precision"].v,
   sar_drift_file |-> "single.txt"]

\* read_json_config ends the script through util.error_msg
ConfigRejected ==
  /\ main_pc = "start"
  /\ exit_status(args_config_file, json_config, fs) # 0
  /\ rc' = exit_status(args_config_file, json_config, fs)
  /\ main_pc' = "exited"
  /\ UNCHANGED <<args_config_file, json_config, fs, dir_listing, config,
                 files, file_idx, calls>>
  /\ UNCHANGED outside_main

\* read_json_config returns; main builds the list of files
ConfigAccepted ==
  /\ main_pc = "start"
  /\ exit_status(args_config_file, json_config, fs) = 0
  /\ config' = config_dict(json_config)
  /\ files' = IF config'.batch_process
              THEN SelectSeq(dir_listing, IsDataFile)
              ELSE <<config'.sar_drift_file>>
  /\ file_idx' = 1
  /\ main_pc' = "files"
  /\ UNCHANGED <<args_config_file, json_config, fs, dir_listing, calls,
                 rc>>
  /\ UNCHANGED outside_main

\* one turn of the loop over files: everything up to the continue
\* statement; the statements after it are never executed
ProcessFile ==
  /\ main_pc = "files"
  /\ file_idx <= Len(files)
  /\ calls' = calls \o
       << [fn |-> "read_sar_drift_data_file", file |-> files[file_idx]],
          [fn |-> "to_csv", file |-> files[file_idx]],
          [fn |-> "create_shape_package", file |-> files[file_idx]],
          [fn |-> "create_netcdf", file |-> files[file_idx]] >>
  /\ file_idx' = file_idx + 1
  /\ UNCHANGED <<args_config_file, json_config, fs, dir_listing, config,
                 files, rc, main_pc>>
  /\ UNCHANGED outside_main

\* the loop is over and main returns
MainReturn ==
  /\ main_pc = "files"
  /\ file_idx > Len(files)
  /\ main_pc' = "returned"
  /\ UNCHANGED <<args_config_file, json_config, fs, dir_listing, config,
                 files, file_idx, calls, rc>>
  /\ UNCHANGED outside_main

NextMain ==
  \/ ConfigRejected
  \/ ConfigAccepted
  \/ ProcessFile
  \/ MainReturn

SpecMain == InitMain /\ [][NextMain]_vars


\* ------------------------------------------------------------------
\* C17  Outlier detection switch: when main() has returned under a
\* validated config with detect_outliers = true, util.detect_outliers
\* was invoked for every processed input file; with detect_outliers =
\* false it was never invoked.
\* ------------------------------------------------------------------

Invoked(fn, file) ==
  \E n \in 1..Len(calls) : calls[n].fn = fn /\ calls[n].file = file

C17_DetectOutliersSwitch ==
  main_pc = "returned" =>
    \A n \in 1..Len(files) :
      /\ Invoked("create_netcdf", files[n])
      /\ Invoked("detect_outliers", files[n]) <=> config.detect_outliers

\* ------------------------------------------------------------------
\* C18  Config key check: read_json_config returns a config only if
\* the key set of the file equals the required key set; with a config
\* file argument given, a missing required key exits with status 2 and
\* an unexpected key with none missing exits with status 3; every exit
\* has a status in 1..19 and happens before a config dictionary exists.
\* ------------------------------------------------------------------

C18_KeyCheckAndStatusRange ==
  LET missing == required_json_keys \ DOMAIN json_config
      extra == DOMAIN json_config \ required_json_keys
  IN
  /\ main_pc \in {"files", "returned"} =>
       DOMAIN json_config = required_json_keys
  /\ (main_pc # "start" /\ args_config_file /\ missing # {}) =>
       (main_pc = "exited" /\ rc = 2)
  /\ (main_pc # "start" /\ args_config_file /\ missing = {}
        /\ extra # {}) => (main_pc = "exited" /\ rc = 3)
  /\ main_pc = "exited" => (rc \in 1..19 /\ DOMAIN config = {})


----------------------------------------------------------------------------
(* C13 *)

ScenarioA == df \in ScenarioATables

\* C13 as claimed: in Scenario A (three observations of one scene within
\* the radius, distances 10, 10, 10 km, bearings 45, 45, 46 degrees), after
\* a pass every distance z-score and every bearing z-score is a number near
\* 0 (at most 0.5) and every category has reason 0.
C13_AllScoresNearZero ==
  (ScenarioA /\ Classified) =>
    \A i \in Rows :
      /\ out_df[i].distance_z_score # NaN
      /\ out_df[i].distance_z_score <= 500
      /\ out_df[i].bearing_z_score # NaN
      /\ out_df[i].bearing_z_score <= 500
      /\ ReasonOf(out_df[i].outlier_category) = 0

\* C13 as amended: in Scenario A, after a pass every distance z-score is
\* not-a-number (the neighbours' distances are equal), the bearing z-score
\* is about 1 for the two observations of 45 degrees and not-a-number for
\* the one of 46 degrees (its neighbours' bearings are equal), no score
\* exceeds the threshold, and every category has reason 0.
C13_ScenarioA ==
  (ScenarioA /\ Classified) =>
    \A i \in Rows :
      /\ out_df[i].distance_z_score = NaN
      /\ out_df[i].Bear_deg = 45 =>
           (out_df[i].bearing_z_score >= 990 /\ out_df[i].bearing_z_score <= 1010)
      /\ out_df[i].Bear_deg = 46 => out_df[i].bearing_z_score = NaN
      /\ ReasonOf(out_df[i].outlier_category) = 0

\* Scenario A has run to the end: three rows of two neighbours each, one
\* with a bearing score of 1 and one without a bearing score
C13_Witness ==
  /\ ScenarioA
  /\ pc = "done"
  /\ Len(out_df) = 3
  /\ \A i \in Rows : out_df[i].neighbor_count = 2
  /\ \E i \in Rows : out_df[i].bearing_z_score = 1000
  /\ \E i \in Rows : out_df[i].Bear_deg = 46 /\ out_df[i].bearing_z_score = NaN


----------------------------------------------------------------------------
(* C12 *)

ScenarioB == df \in ScenarioBTables

\* the observations of about 10 km
ClusterRows == {i \in Rows : out_df[i].total_distance_km # ScenarioBOutlierKm}

\* what the claim has of a row of Scenario B
ScenarioBVerdict(i) ==
  IF out_df[i].total_distance_km = ScenarioBOutlierKm
  THEN /\ out_df[i].distance_z_score # NaN
       /\ out_df[i].distance_z_score > 3000
       /\ out_df[i].neighbor_count >= 3
       /\ out_df[i].outlier_category = "11"
  ELSE out_df[i].outlier_category \in {"01", "00"}

\* C12 as claimed: in Scenario B (one scene within the radius, three
\* observations of about 10 km and one of 80 km, all of bearing 45 degrees,
\* min_neighbors = 3), after a pass the 80 km observation has distance_z > 3,
\* neighbor_count >= 3 and category "11", and each of the other three has
\* category "01" or "00".
C12_ScenarioBAsClaimed ==
  (ScenarioB /\ Classified) => \A i \in Rows : ScenarioBVerdict(i)

\* C12 as amended: the same of a run of a single pass (iter_count = 1) on
\* three observations of about 10 km whose distances are not all equal.
C12_ScenarioBSinglePass ==
  (/\ ScenarioB
   /\ Classified
   /\ iter_count = 1
   /\ \E i \in ClusterRows : \E j \in ClusterRows :
        out_df[i].total_distance_km # out_df[j].total_distance_km)
    => \A i \in Rows : ScenarioBVerdict(i)

\* a single pass over Scenario B with distances 9, 10 and 12 km has ended:
\* the 80 km observation is a distance outlier with three neighbours
C12_Witness ==
  /\ ScenarioB
  /\ iter_count = 1
  /\ pc = "done"
  /\ {out_df[i].total_distance_km : i \in ClusterRows} = {9, 10, 12}
  /\ \E i \in Rows : /\ out_df[i].total_distance_km = ScenarioBOutlierKm
                     /\ out_df[i].outlier_category = "11"
                     /\ out_df[i].neighbor_count = 3


----------------------------------------------------------------------------
(* C14 *)

\* every bearing within two degrees of north, on either side
NorthSide(a) == \A i \in 1..Len(a) : a[i] \in {359, 1, 2}

\* x and y the same angle up to tol, in 1e-8 rad, whole turns apart or not
SameAngle(x, y, tol) ==
  \/ Abs(x - y) <= tol
  \/ Abs(Abs(x - y) - 2 * PI_E8) <= tol

\* C14: the circular mean of bearings on both sides of north lies on the
\* short arc between them (between -1 and 2 degrees for bearings among 359,
\* 1 and 2 degrees) and is about 0.67 degrees (0.67 +- 0.01) for the bearings
\* 1, 359, 2, not their arithmetic mean of about 120 degrees; the bearing
\* residual is the difference cell_bear - bear_mean taken along the shortest
\* path, and its absolute value never exceeds pi.
C14_WrapAround ==
  /\ (circ_pc \in {"mean", "std", "done"} /\ NorthSide(angles)) =>
       (circ_mean >= -1745429 /\ circ_mean <= 3490759)
  /\ (circ_pc \in {"mean", "std", "done"} /\ angles = <<1, 359, 2>>) =>
       Abs(circ_mean - 1169371) <= 17453
  /\ circ_pc = "done" =>
       /\ Abs(circ_delta) <= PI_E8
       /\ SameAngle(circ_delta, deg2rad_E8(circ_cell) - circ_mean, 100)

\* the residual of a bearing of 359 degrees against the mean of 1, 359 and
\* 2 degrees has been computed: a negative angle of less than 2 degrees,
\* where the plain difference is almost a full turn
C14_Witness ==
  /\ circ_pc = "done"
  /\ angles = <<1, 359, 2>>
  /\ circ_cell = 359
  /\ circ_delta < 0
  /\ circ_delta > -3490659
  /\ deg2rad_E8(circ_cell) - circ_mean > PI_E8

----------------------------------------------------------------------------
(* C15 *)

\* C15: circular_std is exactly 0 when all input angles are identical, is
\* finite (the clamp value sqrt(-2 ln 1e-12) at most) when the angles are
\* spread evenly over the circle, and lies in [0, sqrt(-2 ln 1e-12)] for
\* every non-empty input.
C15_CircularStdRange ==
  circ_pc \in {"std", "done"} =>
    /\ Identical(angles) => circ_std = 0
    /\ Cancelling(angles) => circ_std = CLIP_STD_E8
    /\ circ_std >= 0
    /\ circ_std <= CLIP_STD_E8

----------------------------------------------------------------------------
(* C21 *)

\* C21: after a pass, every observation o that was in the pool of the pass
\* has as neighbor_indices (the empty set standing for None) exactly the
\* observations p # o of the pool of that pass, of the scene of o, at a
\* Euclidean distance of (X1, Y1) of at most radius_km * 1000 metres, and
\* as neighbor_count the size of that set.
C21_NeighborSet ==
  AfterPass =>
    \A o \in Rows :
      InPool(o) =>
        /\ out_df[o].neighbor_indices = PoolNeighbors(o)
        /\ out_df[o].neighbor_count = Cardinality(PoolNeighbors(o))

\* a pass has left a pool observation with a neighbour at exactly the radius,
\* an observation of another scene within the radius being no neighbour
C21_Witness ==
  /\ AfterPass
  /\ \E o \in Rows :
       /\ InPool(o)
       /\ \E p \in out_df[o].neighbor_indices :
            (out_df[o].X1 - out_df[p].X1) * (out_df[o].X1 - out_df[p].X1)
              + (out_df[o].Y1 - out_df[p].Y1) * (out_df[o].Y1 - out_df[p].Y1)
              = (radius_km * 1000) * (radius_km * 1000)
       /\ \E s \in Rows :
            /\ out_df[s].scene # out_df[o].scene
            /\ WithinRadius(o, s)
            /\ s \notin out_df[o].neighbor_indices

----------------------------------------------------------------------------
(* C22 *)

\* C22: before the first iteration every observation has category '01',
\* with neighbor_count 0 whatever min_neighbors is, so that the pool of
\* iteration 1 is the whole table; and the pool of every iteration is
\* exactly the observations whose category has reason digit 0, '00' as
\* well as '01'.
C22_InitialStateAndPool ==
  /\ (pc = "loop" /\ n_pass = 0) =>
       \A i \in Rows :
         /\ out_df[i].outlier_category = "01"
         /\ out_df[i].neighbor_count = 0
  /\ (pc = "scenes" /\ n_pass = 0) => {pool_df[k] : k \in 1..Len(pool_df)} = Rows
  /\ pc = "scenes" =>
       /\ {pool_df[k] : k \in 1..Len(pool_df)}
            = {i \in Rows : ReasonOf(out_df[i].outlier_category) = 0}
       /\ \A k \in 1..Len(pool_df) :
            out_df[pool_df[k]].outlier_category \in {"00", "01"}

\* a later iteration whose pool holds an observation of category '00' and
\* leaves an observation out
C22_Witness ==
  /\ pc = "scenes"
  /\ n_pass >= 1
  /\ \E i \in Rows : InPool(i) /\ out_df[i].outlier_category = "00"
  /\ \E i \in Rows : ~InPool(i)

----------------------------------------------------------------------------
(* C23 *)

\* the fields outlier_search reads and never writes after the set-up
InputFields(row) ==
  <<row.File1, row.File2, row.X1, row.Y1, row.total_distance_km,
    row.Bear_deg, row.bearing_rad, row.scene>>

\* C23: from the set-up on, every step of the run leaves the number of
\* observations and, for every observation, its position (X1, Y1), its
\* total_distance_km, its Bear_deg and bearing_rad and its scene id as they
\* were, these being the values of the input table; the steps change
\* neighbor_indices, neighbor_count, the two z-scores and outlier_category
\* only.
C23_ImmutableInputs ==
  /\ [](pc # "start" =>
          /\ Len(out_df) = Len(df)
          /\ \A i \in Rows :
               /\ out_df[i].X1 = InputOf(i).X1
               /\ out_df[i].Y1 = InputOf(i).Y1
               /\ out_df[i].total_distance_km = InputOf(i).total_distance_km
               /\ out_df[i].Bear_deg = InputOf(i).Bear_deg
               /\ out_df[i].bearing_rad = deg2rad_E8(InputOf(i).Bear_deg))
  /\ [][pc # "start" =>
          /\ Len(out_df') = Len(out_df)
          /\ \A i \in Rows :
               /\ InputFields(out_df'[i]) = InputFields(out_df[i])
               /\ out_df'[i].src = out_df[i].src]_vars

\* a second pass has ended on a table whose classification fields have all
\* been written: a flagged observation, and a pool observation with
\* neighbours and a score
C23_Witness ==
  /\ AfterPass
  /\ n_pass >= 2
  /\ \E i \in Rows : ReasonOf(out_df[i].outlier_category) # 0
  /\ \E i \in Rows :
       /\ InPool(i)
       /\ out_df[i].neighbor_count > 0
       /\ out_df[i].neighbor_indices # {}
       /\ out_df[i].distance_z_score # NaN

----------------------------------------------------------------------------
(* C24 *)

\* |cell - mean| / std > 3 for the distance of i against its pool
\* neighbours, before any rounding: with n neighbours of sum S and sum of
\* squares Q, (n * cell - S)^2 > 9 * (n * Q - S^2)
DistExceedsUnrounded(i) ==
  LET x == Dists(i)
      a == Len(x) * out_df[i].total_distance_km - MeanTimesN(x)
  IN  /\ PoolNeighbors(i) # {}
      /\ VarTimesN2(x) # 0
      /\ a * a > 9 * VarTimesN2(x)

\* C24, for the distance score: after a pass, an observation of the pool
\* whose distance z-score as computed, before rounding, is strictly greater
\* than 3 is flagged for distance, also when the score rounds to 3.000.
C24_UnroundedComparison ==
  AfterPass =>
    \A i \in Rows :
      (InPool(i) /\ DistExceedsUnrounded(i)) => distance_flag(i)

----------------------------------------------------------------------------
(* C25 *)

\* no observation of the scene of i is in the pool of the iteration
SceneOutOfPool(i) ==
  \A j \in Rows : out_df[j].scene = out_df[i].scene => ~InPool(j)

\* C25: in an iteration whose pool holds no observation of a scene, or no
\* observation at all, the scene loop has no step for the scene, and every
\* step of the pass, the classifier included, leaves every field of the
\* observations of the scene as it was: their categories and counts after
\* the pass are those before it.
C25_EmptyPoolOrScene ==
  /\ [](pc = "scenes" =>
          /\ pool_df = <<>> => pending = {}
          /\ \A i \in Rows :
               SceneOutOfPool(i) =>
                 /\ out_df[i].scene \notin pending
                 /\ \A k \in 1..Len(scene_log) : scene_log[k] # out_df[i].scene)
  /\ [][pc = "scenes" =>
          /\ pc' \in {"scenes", "loop"}
          /\ \A i \in Rows : SceneOutOfPool(i) => out_df'[i] = out_df[i]]_vars

\* a pass has run to its end on an empty pool: every observation of the
\* table had been flagged before
C25_Witness ==
  /\ AfterPass
  /\ n_pass >= 2
  /\ Len(out_df) > 0
  /\ pool_df = <<>>
  /\ \A i \in Rows : ReasonOf(out_df[i].outlier_category) # 0

----------------------------------------------------------------------------
(* C26 *)

\* tbl with every field of the observations of the other scenes blanked
Masked(tbl, scene_id) ==
  [i \in 1..Len(tbl) |->
     IF tbl[i].scene = scene_id THEN tbl[i]
     ELSE [tbl[i] EXCEPT !.X1 = 0, !.Y1 = 0, !.total_distance_km = 0,
                         !.Bear_deg = 0, !.bearing_rad = 0,
                         !.outlier_category = "01",
                         !.neighbor_indices = {}, !.neighbor_count = 0,
                         !.distance_z_score = NaN, !.bearing_z_score = NaN]]

\* the step of scene a on the table of the state
StepOf(a) == BuildScene(out_df, pool_df, a, radius_km * 1000)

\* the steps of a and b run side by side on the table of the state, each
\* keeping the rows of its scene
SideBySide(a, b) ==
  [i \in Rows |-> IF out_df[i].scene = a THEN StepOf(a)[i]
                  ELSE IF out_df[i].scene = b THEN StepOf(b)[i]
                  ELSE out_df[i]]

\* how many steps of the scene loop the scene of i has had or has to come
StepsOfScene(i) ==
  Cardinality({k \in 1..Len(scene_log) : scene_log[k] = out_df[i].scene})
    + (IF out_df[i].scene \in pending THEN 1 ELSE 0)

\* C26: within an iteration, the step of a scene S gives the rows of S the
\* values it would give them were every other scene's observations blank,
\* leaves the rows of every other scene and the input fields of its own as
\* they are, and every pool observation belongs to exactly one step; two
\* steps give the same table in either order and when run side by side on
\* the same table, and the table at the end of the scene loop is the one
\* the steps leave when run again in the order of the code.
C26_SceneIndependence ==
  /\ [](pc = "scenes" =>
          /\ \A i \in Rows : InPool(i) => StepsOfScene(i) = 1
          /\ \A a \in pending :
               /\ \A i \in Rows :
                    /\ out_df[i].scene # a => StepOf(a)[i] = out_df[i]
                    /\ out_df[i].scene = a =>
                         StepOf(a)[i] = BuildScene(Masked(out_df, a), pool_df, a,
                                                   radius_km * 1000)[i]
                    /\ InputFields(StepOf(a)[i]) = InputFields(out_df[i])
               /\ \A b \in pending \ {a} :
                    /\ BuildScene(StepOf(a), pool_df, b, radius_km * 1000)
                         = BuildScene(StepOf(b), pool_df, a, radius_km * 1000)
                    /\ BuildScene(StepOf(a), pool_df, b, radius_km * 1000)
                         = SideBySide(a, b)
          /\ pending = {} =>
               out_df = BuildScenes(out_df, pool_df,
                                    SetToSeq(ScenesOf(out_df, pool_df)),
                                    radius_km * 1000))
  /\ [][(pc = "scenes" /\ pc' = "scenes") =>
          \A i \in Rows :
            out_df[i].scene # scene_log'[Len(scene_log')]
              => out_df'[i] = out_df[i]]_vars

\* a later iteration in which a scene has had its step before a scene that
\* the code takes first and that is still to come, with neighbours found
C26_Witness ==
  /\ pc = "scenes"
  /\ n_pass >= 1
  /\ Len(scene_log) >= 1
  /\ pending # {}
  /\ \E s \in pending : scene_log[1] > s
  /\ \E i \in Rows : InPool(i) /\ out_df[i].neighbor_count > 0

----------------------------------------------------------------------------
(* C27 *)

\* C27: at the end of every pass, any two observations i and j of the pool
\* of the pass are each in the other's neighbor_indices or neither is in
\* the other's; and at no time does the neighbor_indices of an observation,
\* in the pool or excluded from it, hold the observation's own index, an
\* index outside the table, or the index of an observation of another
\* scene.
C27_NeighborSymmetry ==
  /\ AfterPass =>
       \A i, j \in Rows :
         (InPool(i) /\ InPool(j)) =>
           (j \in out_df[i].neighbor_indices <=> i \in out_df[j].neighbor_indices)
  /\ pc # "start" =>
       \A i \in Rows :
         /\ i \notin out_df[i].neighbor_indices
         /\ out_df[i].neighbor_indices \subseteq Rows
         /\ \A j \in out_df[i].neighbor_indices :
              out_df[j].scene = out_df[i].scene

\* a later pass has ended with two pool observations in each other's lists
\* and an excluded observation whose list still names one of them, which no
\* longer names it
C27_Witness ==
  /\ AfterPass
  /\ n_pass >= 2
  /\ \E i, j, q \in Rows :
       /\ InPool(i) /\ InPool(j) /\ ~InPool(q)
       /\ j \in out_df[i].neighbor_indices
       /\ i \in out_df[j].neighbor_indices
       /\ i \in out_df[q].neighbor_indices
       /\ q \notin out_df[i].neighbor_indices

----------------------------------------------------------------------------
(* C28 *)

\* the observations of the scene of i within the radius of i, in the pool
\* or not: the neighbours of i in the first pass
FirstPassNeighbors(i) ==
  {j \in Rows \ {i} : out_df[j].scene = out_df[i].scene /\ WithinRadius(i, j)}

\* C28: once the first pass has ended, no step of the run raises the
\* neighbor_count of an observation, and no step takes the confidence digit
\* of an observation from 0 to 1: the count after pass k + 1 is at most the
\* count after pass k, and a confidence digit that is 0 after a pass is 0
\* after every later pass.
C28_ConfidenceNeverRises ==
  [][(pc # "start" /\ n_pass >= 1) =>
       \A i \in Rows :
         /\ out_df'[i].neighbor_count <= out_df[i].neighbor_count
         /\ ConfOf(out_df[i].outlier_category) = 0
              => ConfOf(out_df'[i].outlier_category) = 0]_vars

\* a later pass has ended with an observation of confidence 0 that had
\* min_neighbors neighbours in the first pass and has lost some since
C28_Witness ==
  /\ AfterPass
  /\ n_pass >= 2
  /\ \E i \in Rows :
       /\ InPool(i)
       /\ ConfOf(out_df[i].outlier_category) = 0
       /\ Cardinality(FirstPassNeighbors(i)) >= min_neighbors
       /\ out_df[i].neighbor_count < Cardinality(FirstPassNeighbors(i))

----------------------------------------------------------------------------
(* detect_outliers (util.py 1445-1764): the loop over the data files and   *)
(* the plot of all inliers.  A data file is known by the number of         *)
(* observations of its cleaned table (rows), by that of the 75 km file of  *)
(* the same pair when there is one (rows75, else None), and by whether its *)
(* name carries the two time stamps.  det_log holds the calls made, each   *)
(* with the position of its file in gfilter_matches.                       *)

outside_det == <<search_vars, nc_vars, main_vars, circ_vars>>

\* largest number of files in the directory
MaxDetFiles == 2

DetRowVals == {1, 2, 3}
ThresholdVals == {2}
StrideVals == {0, 1}

DetFiles ==
  [rows : DetRowVals, rows75 : DetRowVals \cup {None}, stamped : BOOLEAN]

\* the config dictionaries: the one read_json_config returns has no key
\* 'sar_drift_file_name' (has_file_name FALSE)
DetConfigs ==
  [batch_process : BOOLEAN, has_file_name : BOOLEAN,
   ignore_vector_threshold : ThresholdVals, inlier_vector_stride : StrideVals]

InitDetect ==
  /\ SearchIdle
  /\ NetcdfIdle
  /\ MainIdle
  /\ CircIdle
  /\ det_config \in DetConfigs
  /\ det_dir \in UNION {[1..n -> DetFiles] : n \in 0..MaxDetFiles}
  /\ det_config.batch_process \/ Len(det_dir) = 1
  /\ det_config.batch_process => ~det_config.has_file_name
  /\ gfilter_matches = <<>>
  /\ det_idx = 0
  /\ det_log = <<>>
  /\ quiver_payloads = <<>>
  /\ starts = <<>>
  /\ det_pc = "start"

\* df.shape[0] of the 50 km file, whichever file is read
df_shape_50km(f) == f.rows

\* df.shape[0] of the file read: the 75 km file when it exists
df_shape(f) == IF f.rows75 # None THEN f.rows75 ELSE f.rows

\* util.py 1476-1483: the files to process
DetectListFiles ==
  /\ det_pc = "start"
  /\ det_config.batch_process \/ det_config.has_file_name
  /\ gfilter_matches' = [k \in 1..Len(det_dir) |-> k]
  /\ det_idx' = 1
  /\ det_pc' = "files"
  /\ UNCHANGED <<det_config, det_dir, det_log, quiver_payloads, starts>>
  /\ UNCHANGED outside_det

\* util.py 1483: config['sar_drift_file_name'] of a dictionary without it
DetectKeyError ==
  /\ det_pc = "start"
  /\ ~det_config.batch_process
  /\ ~det_config.has_file_name
  /\ det_pc' = "raised"
  /\ UNCHANGED <<det_config, det_dir, gfilter_matches, det_idx, det_log,
                 quiver_payloads, starts>>
  /\ UNCHANGED outside_det

\* util.py 1505, 203-213: _parse_pair_times raises ValueError
DetectFileRaises ==
  /\ det_pc = "files"
  /\ det_idx <= Len(gfilter_matches)
  /\ ~det_dir[gfilter_matches[det_idx]].stamped
  /\ det_pc' = "raised"
  /\ UNCHANGED <<det_config, det_dir, gfilter_matches, det_idx, det_log,
                 quiver_payloads, starts>>
  /\ UNCHANGED outside_det

\* util.py 1488-1635: one turn of the loop over the files
DetectFile ==
  /\ det_pc = "files"
  /\ det_idx <= Len(gfilter_matches)
  /\ det_dir[gfilter_matches[det_idx]].stamped
  /\ LET f == det_dir[gfilter_matches[det_idx]]
         read == [fn |-> "read_sar_drift_data_file", file |-> det_idx]
     IN  /\ starts' = Append(starts, det_idx)
         /\ IF df_shape(f) < det_config.ignore_vector_threshold
            THEN /\ det_log' = Append(det_log, read)
                 /\ UNCHANGED quiver_payloads
            ELSE /\ det_log' = det_log \o
                      << read,
                         [fn |-> "outlier_search", file |-> det_idx],
                         [fn |-> "create_shape_package", file |-> det_idx],
                         [fn |-> "savefig", file |-> det_idx] >>
                 /\ quiver_payloads' =
                      Append(quiver_payloads,
                             [file |-> det_idx, len |-> df_shape(f)])
  /\ det_idx' = det_idx + 1
  /\ UNCHANGED <<det_config, det_dir, gfilter_matches, det_pc>>
  /\ UNCHANGED outside_det

\* the payloads the plot of all inliers draws
NonEmptyPayloads == SelectSeq(quiver_payloads, LAMBDA p : p.len > 0)

\* util.py 1641-1764: the plot of all inliers drawn and saved; file 0 is
\* all_inliers.png
DetectPlot ==
  /\ det_pc = "files"
  /\ det_idx > Len(gfilter_matches)
  /\ NonEmptyPayloads # <<>>
  /\ det_config.inlier_vector_stride # 0
  /\ det_log' = det_log
       \o [k \in 1..Len(NonEmptyPayloads) |->
             [fn |-> "quiver", file |-> NonEmptyPayloads[k].file]]
       \o << [fn |-> "savefig", file |-> 0] >>
  /\ det_pc' = "returned"
  /\ UNCHANGED <<det_config, det_dir, gfilter_matches, det_idx,
                 quiver_payloads, starts>>
  /\ UNCHANGED outside_det

\* util.py 1641-1642, 1669-1671, 1710-1712: the sea ice file is not where
\* the code looks for it, or there is nothing to concatenate, or the
\* stride of the slices is 0
DetectPlotRaises ==
  /\ det_pc = "files"
  /\ det_idx > Len(gfilter_matches)
  /\ \E gmasi_exists \in BOOLEAN :
       \/ ~gmasi_exists
       \/ NonEmptyPayloads = <<>>
       \/ det_config.inlier_vector_stride = 0
  /\ det_pc' = "raised"
  /\ UNCHANGED <<det_config, det_dir, gfilter_matches, det_idx, det_log,
                 quiver_payloads, starts>>
  /\ UNCHANGED outside_det

NextDetect ==
  \/ DetectListFiles
  \/ DetectKeyError
  \/ DetectFileRaises
  \/ DetectFile
  \/ DetectPlot
  \/ DetectPlotRaises

SpecDetect == InitDetect /\ [][NextDetect]_vars

----------------------------------------------------------------------------
(* C29 *)

\* the number of observations of the cleaned table of the file at position
\* k of gfilter_matches: of the 75 km file when there is one
CleanedRows(k) ==
  IF det_dir[gfilter_matches[k]].rows75 # None
  THEN det_dir[gfilter_matches[k]].rows75
  ELSE det_dir[gfilter_matches[k]].rows

\* the calls fn made for the file at position k
DetCalls(fn, k) ==
  {n \in 1..Len(det_log) : det_log[n].fn = fn /\ det_log[n].file = k}

\* C29: a file whose cleaned table has fewer observations than
\* ignore_vector_threshold is read and then skipped: outlier_search is
\* not run on it, no GeoPackage and no inlier PNG is made for it, it has no
\* entry in quiver_payloads and the plot of all inliers draws nothing of
\* it.
C29_SmallFileSkip ==
  \A k \in 1..Len(gfilter_matches) :
    (k < det_idx /\ CleanedRows(k) < det_config.ignore_vector_threshold) =>
      /\ DetCalls("read_sar_drift_data_file", k) # {}
      /\ DetCalls("outlier_search", k) = {}
      /\ DetCalls("create_shape_package", k) = {}
      /\ DetCalls("savefig", k) = {}
      /\ DetCalls("quiver", k) = {}
      /\ \A n \in 1..Len(quiver_payloads) : quiver_payloads[n].file # k

\* detect_outliers has returned after skipping a file for the size of its
\* 75 km table, its 50 km table being large enough, and processing another
C29_Witness ==
  /\ det_pc = "returned"
  /\ \E k \in 1..Len(gfilter_matches) :
       /\ CleanedRows(k) < det_config.ignore_vector_threshold
       /\ det_dir[gfilter_matches[k]].rows >= det_config.ignore_vector_threshold
  /\ \E k \in 1..Len(gfilter_matches) :
       /\ DetCalls("outlier_search", k) # {}
       /\ DetCalls("quiver", k) # {}

----------------------------------------------------------------------------
(* C30 *)

\* the config file gives key k a value that is not an integer or is an
\* integer below 1
BadStride(k) ==
  /\ k \in DOMAIN json_config
  /\ \/ ~IsInt(json_config[k])
     \/ json_config[k].v < 1

\* C30: read_json_config exits with a non-zero status, returning no
\* config, whenever inlier_vector_stride is not an integer or is below 1,
\* as it does for vector_stride; a config it returns has
\* inlier_vector_stride >= 1 and vector_stride >= 1.
C30_StrideValidation ==
  main_pc # "start" =>
    /\ (BadStride("inlier_vector_stride") \/ BadStride("vector_stride")) =>
         /\ main_pc = "exited"
         /\ rc # None
         /\ rc # 0
    /\ main_pc \in {"files", "returned"} =>
         /\ config.inlier_vector_stride >= 1
         /\ config.vector_stride >= 1

====
